---------------------------- MODULE Spec2Model ----------------------------
(***************************************************************************)
(* Model of the orchestration core of docs_reviewer.py: the discovery      *)
(* loop of DocumentationReviewer._exhaustive_review and the job poller     *)
(* DocumentationReviewer._run_browser_task.                                *)
(*                                                                         *)
(* Each component has its own specification over the shared variables:     *)
(*   DiscoverySpec  the crawl loop of _exhaustive_review                   *)
(*   PollerSpec     one call of _run_browser_task                          *)
(*   ExtractSpec    one call of _extract_json_from_text                    *)
(*   RunSpec        one exhaustive multi-step run: discovery, the review   *)
(*                  of every page, the overall analysis                    *)
(*   MergeSpec      merge_results_with_file on a results record, followed  *)
(*                  by a second merge                                      *)
(*   FilterSpec     one call of _is_documentation_url                      *)
(*   MultiStepSpec  one run of _multi_step_review                          *)
(*   SinglePassSpec one run of _one_shot_review or of                      *)
(*                  _one_shot_true_exhaustive_review                       *)
(*   RunFairSpec    RunSpec with every enabled step eventually taken       *)
(* The variables of the component a specification does not run keep their  *)
(* initial values.                                                         *)
(***************************************************************************)
EXTENDS Integers, Sequences, FiniteSets, TLC

VARIABLES
    \* ---- _exhaustive_review
    dpc,              \* position in _exhaustive_review
    safety_limit,     \* the safety_limit argument
    discovered_urls,  \* set of URL ids
    processed_urls,   \* set of URL ids
    round_num,        \* round counter
    unprocessed,      \* the slice unprocessed[:10] of the round in progress
    idx,              \* 1-based position of the for loop in that slice
    exit_reason,      \* which exit of the while loop was taken
    crawls,           \* number of link-listing crawls made so far
    seed_links,       \* len(new_links) of the crawl of the seed, -1 before it
    failed_at,        \* position in the slice of the first failed crawl, 0 if none
    \* ---- _run_browser_task
    ppc,              \* position in _run_browser_task
    elapsed_time,     \* elapsed_time
    share_urls_shown, \* share_urls_shown
    status,           \* the status the last poll observed
    polls,            \* number of status polls made
    running_polls,    \* polls that observed "running" (counted up to HistCap)
    status_missed,    \* some poll retrieved no status
    seen,             \* what the terminal branch read from the remote service
    result,           \* the value returned, NoResult before and on a raise
    error,            \* the exception raised, NoError if none
    file_requests,    \* requests to get-task-output-file: [download, extract]
    details_fetches,  \* details fetches made for display inside the polling
                      \* loop (counted up to HistCap)
    running_like_seen,\* some poll observed running or in_progress
    task_details,     \* which fetch the local task_details was last assigned by
    \* ---- _extract_json_from_text
    xpc,              \* position in _extract_json_from_text
    input_text,       \* the text argument, a sequence of tokens
    extracted,        \* the mapping returned
    \* ---- the review run: _exhaustive_review, _multi_step_exhaustive_review
    \*      and _generate_exhaustive_overall_analysis
    rpc,              \* phase of the run
    call,             \* the _run_browser_task call the run is suspended on
    in_flight,        \* jobs submitted whose poller has not returned or raised
    discovery_order,  \* the URLs in the order of discovered_urls.add
    all_urls,         \* all_urls, the list handed to the review phase
    ri,               \* 1-based position of the review loop in all_urls
    page_reviews,     \* page_reviews
    stats,            \* avg_score and score_distribution
    overall_review,   \* what the aggregator returned
    last_outcome,     \* how the last job of the review phase ended
    \* ---- merge_results_with_file and the viewer's merge_with_review_results
    mpc,              \* position: before the first merge, after it, at the end
    original,         \* the results argument as it was passed to the first merge
    results,          \* the results object, which a merge may change in place
    review_file,      \* review_results.json as the merge finds it
    merged,           \* the record the last merge returned
    first_merged,     \* the record the first merge returned
    last_call,        \* which merge was made last
    \* ---- _is_documentation_url
    fpc,              \* position in _is_documentation_url
    candidate,        \* the url argument, a sequence of tokens
    admitted,         \* the value returned
    \* ---- _multi_step_review
    max_pages,        \* the max_pages argument
    start_parses,     \* urlparse accepts the start_url argument
    \* ---- _one_shot_review and _one_shot_true_exhaustive_review
    opc,              \* position in the strategy
    strategy,         \* which of the two strategies runs
    single_job,       \* how the one call of _run_browser_task ended
    single_record     \* the record returned

dvars == <<dpc, safety_limit, discovered_urls, processed_urls, round_num,
           unprocessed, idx, exit_reason, crawls, seed_links, failed_at>>
pvars == <<ppc, elapsed_time, share_urls_shown, status, polls, running_polls,
           status_missed, seen, result, error, file_requests,
           details_fetches, running_like_seen, task_details>>
xvars == <<xpc, input_text, extracted>>
rvars == <<rpc, call, in_flight, discovery_order, all_urls, ri, page_reviews,
           stats, overall_review, last_outcome>>
mvars == <<mpc, original, results, review_file, merged, first_merged,
           last_call>>
fvars == <<fpc, candidate, admitted>>
nvars == <<max_pages, start_parses>>
ovars == <<opc, strategy, single_job, single_record>>
vars == <<dvars, pvars, xvars, rvars, mvars, fvars, nvars, ovars>>

---------------------------------------------------------------------------
(* Bounds of the model.                                                    *)

\* Number of ordinary documentation pages of the site (page 1 is the seed).
NumPages == 12
\* safety_limit ranges over 0 .. MaxLimit.
MaxLimit == 12
\* running_polls and details_fetches stop counting here.
HistCap == 2
\* _extract_json_from_text is applied to every text of up to MaxTextLen tokens.
MaxTextLen == 5
\* Number of pages of the site that a whole run reviews (page 1 is the seed).
RunPages == 3

---------------------------------------------------------------------------
(* URLs.  A URL is an id; UrlText gives its text as a sequence of tokens,  *)
(* split so that the string tests of the code (startswith, in, endswith,   *)
(* lower) are tests on whole tokens.                                       *)

SeedHost == "docs.example.com"

Pages == 1 .. NumPages
SeedUrl == 1
\* Special links a link-listing job may return besides the pages.
AnchorUrl == NumPages + 1      \* https://docs.example.com/p1#top
PdfUrl == NumPages + 2         \* https://docs.example.com/file.PDF
AssetUrl == NumPages + 3       \* https://docs.example.com/static/app
ForeignUrl == NumPages + 4     \* https://other.org/docs
RefUrl == NumPages + 5         \* https://other.org/?u=docs.example.com
LookalikeUrl == NumPages + 6   \* https://docs.example.com.evil.org/docs
QueryPdfUrl == NumPages + 7    \* https://docs.example.com/file.pdf?v=2
Specials == {AnchorUrl, PdfUrl, AssetUrl, ForeignUrl, RefUrl, LookalikeUrl,
             QueryPdfUrl}
Urls == Pages \cup Specials

UrlText(u) ==
    CASE u \in Pages -> <<"https://", SeedHost, "/p", ToString(u)>>
      [] u = AnchorUrl -> <<"https://", SeedHost, "/p", "1", "#", "top">>
      [] u = PdfUrl -> <<"https://", SeedHost, "/file", ".PDF">>
      [] u = AssetUrl -> <<"https://", SeedHost, "/static/", "app">>
      [] u = ForeignUrl -> <<"https://", "other.org", "/docs">>
      [] u = RefUrl -> <<"https://", "other.org", "/?u=", SeedHost>>
      [] u = LookalikeUrl -> <<"https://", SeedHost, ".evil.org", "/docs">>
      [] u = QueryPdfUrl -> <<"https://", SeedHost, "/file", ".pdf", "?v=2">>

\* The tokens a host name is made of.
HostTokens == {SeedHost, ".evil.org", "other.org"}

\* urlparse(text).netloc: the tokens of the host, which follow the scheme
NetlocOf(text) ==
    SubSeq(text, 2,
           1 + Cardinality({k \in 2 .. Len(text) :
                               \A j \in 2 .. k : text[j] \in HostTokens}))

\* urlparse(url).netloc
Netloc(u) == NetlocOf(UrlText(u))

\* str.lower() on a token
Lower(t) ==
    CASE t = ".PDF" -> ".pdf"
      [] t = ".Zip" -> ".zip"
      [] t = "/Static/" -> "/static/"
      [] OTHER -> t

\* prefix-test: text.startswith(scheme + domain)
StartsWith(text, scheme, domain) ==
    /\ Len(text) >= 1 + Len(domain)
    /\ text[1] = scheme
    /\ SubSeq(text, 2, 1 + Len(domain)) = domain

\* substring test: token in text
Contains(text, t) == \E k \in 1 .. Len(text) : text[k] = t

\* substring test: domain in text
ContainsText(text, sub) ==
    \E k \in 1 .. Len(text) - Len(sub) + 1 :
        SubSeq(text, k, k + Len(sub) - 1) = sub

skip_extensions ==
    {".pdf", ".zip", ".tar.gz", ".exe", ".dmg", ".png", ".jpg", ".gif",
     ".svg", ".css", ".js"}
skip_patterns ==
    {"/api/download/", "/files/", "/assets/", "/static/", "/_next/", "/_nuxt/"}

\* _is_documentation_url(url), on the text of the URL
IsDocumentationText(text) ==
    LET url_lower == [k \in 1 .. Len(text) |-> Lower(text[k])]
    IN  /\ ~(url_lower[Len(url_lower)] \in skip_extensions)
        /\ ~(\E k \in 1 .. Len(url_lower) : url_lower[k] \in skip_patterns)
        /\ ~Contains(text, "#")

\* _is_documentation_url(url)
IsDocumentationUrl(u) == IsDocumentationText(UrlText(u))

---------------------------------------------------------------------------
(* Sequences helpers.                                                      *)

\* seq[:n]
Take(seq, n) == SubSeq(seq, 1, IF Len(seq) < n THEN Len(seq) ELSE n)

\* [x for x in seq if Keep(x)]
RECURSIVE FilterSeq(_, _)
FilterSeq(seq, keep) ==
    IF seq = <<>> THEN <<>>
    ELSE IF Head(seq) \in keep THEN <<Head(seq)>> \o FilterSeq(Tail(seq), keep)
    ELSE FilterSeq(Tail(seq), keep)

Range(seq) == {seq[k] : k \in 1 .. Len(seq)}

\* The elements of a set of ids in ascending order.
RECURSIVE Ascending(_)
Ascending(S) ==
    IF S = {} THEN <<>>
    ELSE LET m == CHOOSE x \in S : \A y \in S : x <= y
         IN  <<m>> \o Ascending(S \ {m})

Reverse(seq) == [k \in 1 .. Len(seq) |-> seq[Len(seq) + 1 - k]]

\* The subsets of S with exactly k elements.
RECURSIVE KSubsets(_, _)
KSubsets(S, k) ==
    IF k = 0 THEN {{}}
    ELSE UNION {{D \cup {x} : D \in KSubsets({y \in S : y > x}, k - 1)} : x \in S}

---------------------------------------------------------------------------
(* The remote service, as seen by one link-listing job.                    *)

\* Every link the service may report, specials first.
AllLinks ==
    <<AnchorUrl, PdfUrl, AssetUrl, ForeignUrl, RefUrl, LookalikeUrl,
      QueryPdfUrl>> \o Ascending(Pages)

\* The "links" arrays a link-listing job on url u may return.
RemoteLinkLists(u) ==
    {<<>>, AllLinks, Reverse(AllLinks)}
        \cup (IF u \in Pages /\ u + 1 \in Pages THEN {<<u + 1>>} ELSE {})
        \cup (IF u \in Pages /\ u + 2 \in Pages THEN {<<u + 1, u + 2>>} ELSE {})
        \cup (IF u \in Pages /\ u + 1 \in Pages THEN {<<PdfUrl, u + 1>>} ELSE {})

\* What the two jobs of _extract_documentation_links may do: the first job
\* returns (links) or raises; only if it raises, the fallback job runs.
JobOutcomes(u) ==
    [primary : {"ok"}, links : RemoteLinkLists(u),
     fallback : {"unused"}, fallback_links : {<<>>}]
        \cup [primary : {"raised"}, links : {<<>>},
              fallback : {"ok"}, fallback_links : RemoteLinkLists(u)]
        \cup [primary : {"raised"}, links : {<<>>},
              fallback : {"raised"}, fallback_links : {<<>>}]

\* _simple_link_extraction(start_url), its job having returned raw or raised
SimpleLinkExtraction(u, job) ==
    IF job.fallback = "ok"
    THEN FilterSeq(Take(job.fallback_links, 10),
                   {l \in Urls : /\ ContainsText(UrlText(l), Netloc(u))
                                 /\ ~Contains(UrlText(l), "#")})
    ELSE <<>>

\* _extract_documentation_links(start_url)
ExtractDocumentationLinks(u, job) ==
    IF job.primary = "ok"
    THEN Take(FilterSeq(job.links,
                        {l \in Urls :
                            /\ \/ StartsWith(UrlText(l), "http://", Netloc(u))
                               \/ StartsWith(UrlText(l), "https://", Netloc(u))
                            /\ ~Contains(UrlText(l), "#")}),
              50)
    ELSE SimpleLinkExtraction(u, job)

\* How the crawl of one URL ended, as _exhaustive_review sees it.
CrawlOutcome(job) ==
    IF job.primary = "ok" THEN "ok"
    ELSE IF job.fallback = "ok" THEN "fallback" ELSE "failed"

---------------------------------------------------------------------------
(* _exhaustive_review: the discovery loop.                                 *)

RoundBatch == 10
MaxRounds == 10

\* discovered_urls - processed_urls
FrontierKeepsProcessed(discovered, processed) == discovered

Frontier(discovered, processed) == discovered \ processed

\* round_num > 10, tested after round_num += 1
RoundBoundNeverHit(r) == FALSE

RoundBoundExceeded(r) == r > MaxRounds

\* len(discovered_urls) > safety_limit
SafetyLimitExceeded(discovered, limit) == Cardinality(discovered) > limit

\* unprocessed[:10]: the list is built from a set, so any RoundBatch of the
\* frontier's URLs may come first.  LeftOut gives the sets of URLs that the
\* slice may leave for a later round.
LeftOut(frontier) ==
    IF Cardinality(frontier) <= RoundBatch THEN {{}}
    ELSE KSubsets(frontier, Cardinality(frontier) - RoundBatch)

\* The order of the list built from the set: two orders are explored.
ListOf(S, reversed) == IF reversed THEN Reverse(Ascending(S)) ELSE Ascending(S)

\* The body of "for link in new_links": discovered_urls after the adds.
AddLinksDropsOld(discovered, new_links, base_domain) ==
    {l \in Range(new_links) :
        /\ l \notin discovered
        /\ ContainsText(UrlText(l), base_domain)
        /\ IsDocumentationUrl(l)}

AddLinks(discovered, new_links, base_domain) ==
    discovered \cup
        {l \in Range(new_links) :
            /\ l \notin discovered
            /\ ContainsText(UrlText(l), base_domain)
            /\ IsDocumentationUrl(l)}

\* processed_urls.add(url), reached however the crawl ended
ProcessedSkipsFailed(processed, url, outcome) ==
    IF outcome = "failed" THEN processed ELSE processed \cup {url}

ProcessedAfterCrawl(processed, url, outcome) == processed \cup {url}

\* "while discovered_urls - processed_urls" is false: the loop ends.
ExitFrontierEmpty ==
    /\ dpc = "loop"
    /\ Frontier(discovered_urls, processed_urls) = {}
    /\ dpc' = "done"
    /\ exit_reason' = "frontier_empty"
    /\ UNCHANGED <<safety_limit, discovered_urls, processed_urls, round_num,
                   unprocessed, idx, crawls, seed_links, failed_at>>

\* The safety check at the head of a round breaks out of the loop.
ExitSafetyLimit ==
    /\ dpc = "loop"
    /\ Frontier(discovered_urls, processed_urls) # {}
    /\ SafetyLimitExceeded(discovered_urls, safety_limit)
    /\ dpc' = "done"
    /\ exit_reason' = "safety_limit"
    /\ UNCHANGED <<safety_limit, discovered_urls, processed_urls, round_num,
                   unprocessed, idx, crawls, seed_links, failed_at>>

\* A round begins: the slice of this round is taken.
StartRound ==
    /\ dpc = "loop"
    /\ Frontier(discovered_urls, processed_urls) # {}
    /\ ~SafetyLimitExceeded(discovered_urls, safety_limit)
    /\ \E reversed \in BOOLEAN :
          \E D \in LeftOut(Frontier(discovered_urls, processed_urls)) :
             unprocessed' =
                ListOf(Frontier(discovered_urls, processed_urls) \ D, reversed)
    /\ idx' = 1
    /\ failed_at' = 0
    /\ dpc' = "crawl"
    /\ UNCHANGED <<safety_limit, discovered_urls, processed_urls, round_num,
                   exit_reason, crawls, seed_links>>

\* One iteration of "for url in unprocessed[:10]", the jobs of its crawl
\* ending as job says.
CrawlWith(job) ==
    /\ dpc = "crawl"
    /\ idx <= Len(unprocessed)
    /\ LET url == unprocessed[idx]
       IN  IF url \in processed_urls
           THEN UNCHANGED <<discovered_urls, processed_urls, crawls,
                            seed_links, failed_at>>
           ELSE LET new_links == ExtractDocumentationLinks(url, job)
                    outcome == CrawlOutcome(job)
                IN  /\ discovered_urls' =
                          AddLinks(discovered_urls, new_links, Netloc(SeedUrl))
                    /\ processed_urls' =
                          ProcessedAfterCrawl(processed_urls, url, outcome)
                    /\ crawls' = crawls + 1
                    /\ seed_links' = IF url = SeedUrl
                                      THEN Len(new_links) ELSE seed_links
                    /\ failed_at' = IF outcome = "failed" /\ failed_at = 0
                                    THEN idx ELSE failed_at
    /\ idx' = idx + 1
    /\ UNCHANGED <<dpc, safety_limit, round_num, unprocessed, exit_reason>>

\* One iteration of "for url in unprocessed[:10]".
Crawl ==
    /\ dpc = "crawl"
    /\ idx <= Len(unprocessed)
    /\ \E job \in JobOutcomes(unprocessed[idx]) : CrawlWith(job)

\* The for loop is over: round_num += 1 and the check of the round bound.
EndRound ==
    /\ dpc = "crawl"
    /\ idx > Len(unprocessed)
    /\ round_num' = round_num + 1
    /\ IF RoundBoundExceeded(round_num + 1)
       THEN dpc' = "done" /\ exit_reason' = "max_rounds"
       ELSE dpc' = "loop" /\ UNCHANGED exit_reason
    /\ UNCHANGED <<safety_limit, discovered_urls, processed_urls, unprocessed,
                   idx, crawls, seed_links, failed_at>>

\* all_links = list(discovered_urls): what discovery hands to the review phase.
AllLinksFound == discovered_urls

---------------------------------------------------------------------------
(* _run_browser_task: the values it starts from.                           *)

NoResult == [source |-> "none", how |-> "none", mapping |-> FALSE,
             partial |-> FALSE, files |-> FALSE]
NoError == [kind |-> "none", msg |-> "none"]
NothingSeen == [details |-> "unread", output |-> "unread", file |-> "unasked",
                generic |-> "unread", error_field |-> "unread",
                artifacts |-> "unasked"]

PollerIdle ==
    /\ ppc = "idle"
    /\ elapsed_time = 0
    /\ share_urls_shown = FALSE
    /\ status = "unpolled"
    /\ polls = 0
    /\ running_polls = 0
    /\ status_missed = FALSE
    /\ seen = NothingSeen
    /\ result = NoResult
    /\ error = NoError
    /\ file_requests = [download |-> 0, extract |-> 0]
    /\ details_fetches = 0
    /\ running_like_seen = FALSE
    /\ task_details = "unset"

NotExtracted == [kind |-> "none", value |-> <<>>]

ExtractIdle ==
    /\ xpc = "idle"
    /\ input_text = <<>>
    /\ extracted = NotExtracted

\* avg_score is kept as the fraction <<numerator, denominator>>.
NoStats == [avg |-> <<0, 1>>,
            dist |-> [excellent |-> 0, good |-> 0,
                      needs_improvement |-> 0, poor |-> 0]]
NoAnalysis == [source |-> "none", form |-> "none", note |-> "none",
               avg |-> <<0, 1>>,
               dist |-> [excellent |-> 0, good |-> 0,
                         needs_improvement |-> 0, poor |-> 0],
               assessment |-> FALSE]
NoOutcome == [raised |-> FALSE, form |-> "none", has_scores |-> FALSE,
              overall |-> -1, partial |-> FALSE]

RunIdle ==
    /\ rpc = "idle"
    /\ call = "none"
    /\ in_flight = 0
    /\ discovery_order = <<>>
    /\ all_urls = <<>>
    /\ ri = 0
    /\ page_reviews = <<>>
    /\ stats = NoStats
    /\ overall_review = NoAnalysis
    /\ last_outcome = NoOutcome

\* A record without keys, and the merge before its first call.
NoRecord == <<>>

MergeIdle ==
    /\ mpc = "idle"
    /\ original = NoRecord
    /\ results = NoRecord
    /\ review_file = [state |-> "missing", form |-> "none", content |-> NoRecord]
    /\ merged = NoRecord
    /\ first_merged = NoRecord
    /\ last_call = "none"

FilterIdle ==
    /\ fpc = "idle"
    /\ candidate = <<>>
    /\ admitted = FALSE

\* _multi_step_review is not part of the run: it has no max_pages.
MultiStepIdle == max_pages = 0 /\ start_parses = TRUE

NoJob == [raised |-> FALSE, kind |-> "none", form |-> "none", value |-> <<>>]

SinglePassIdle ==
    /\ opc = "idle"
    /\ strategy = "none"
    /\ single_job = NoJob
    /\ single_record = <<>>

DiscoveryIdle ==
    /\ dpc = "idle"
    /\ safety_limit = 0
    /\ discovered_urls = {}
    /\ processed_urls = {}
    /\ round_num = 0
    /\ unprocessed = <<>>
    /\ idx = 0
    /\ exit_reason = "none"
    /\ crawls = 0
    /\ seed_links = -1
    /\ failed_at = 0

---------------------------------------------------------------------------
(* Specification of the discovery loop.                                    *)

DiscoveryInit ==
    /\ dpc = "loop"
    /\ safety_limit \in 0 .. MaxLimit
    /\ discovered_urls = {SeedUrl}
    /\ processed_urls = {}
    /\ round_num = 1
    /\ unprocessed = <<>>
    /\ idx = 0
    /\ exit_reason = "none"
    /\ crawls = 0
    /\ seed_links = -1
    /\ failed_at = 0
    /\ PollerIdle
    /\ ExtractIdle
    /\ RunIdle
    /\ MergeIdle
    /\ FilterIdle
    /\ MultiStepIdle
    /\ SinglePassIdle

DiscoveryNext ==
    \/ ExitFrontierEmpty /\ UNCHANGED <<pvars, xvars, rvars, mvars, fvars, nvars, ovars>>
    \/ ExitSafetyLimit /\ UNCHANGED <<pvars, xvars, rvars, mvars, fvars, nvars, ovars>>
    \/ StartRound /\ UNCHANGED <<pvars, xvars, rvars, mvars, fvars, nvars, ovars>>
    \/ Crawl /\ UNCHANGED <<pvars, xvars, rvars, mvars, fvars, nvars, ovars>>
    \/ EndRound /\ UNCHANGED <<pvars, xvars, rvars, mvars, fvars, nvars, ovars>>

DiscoverySpec == DiscoveryInit /\ [][DiscoveryNext]_vars

\* The event loop runs the coroutine to its end: every step that can be
\* taken is eventually taken.
DiscoveryFairSpec == DiscoverySpec /\ WF_vars(DiscoveryNext)

---------------------------------------------------------------------------
(* Properties of the discovery loop.                                       *)

\* C1: for every safety_limit, discovery never hands more than safety_limit
\* URLs to the review phase (stated for safety_limit >= 1: the seed alone
\* already exceeds a limit of 0).
C1_NeverMoreThanLimit ==
    (dpc = "done" /\ safety_limit >= 1)
        => Cardinality(AllLinksFound) <= safety_limit

\* C2: processed_urls is a subset of discovered_urls in every state of the
\* discovery loop: after each crawl, however it ended, and between rounds.
C2_ProcessedSubsetDiscovered == processed_urls \subseteq discovered_urls

\* A crawl that failed has been recorded in processed_urls in the middle of
\* a round, with other discovered URLs still unprocessed.
C2_Witness ==
    /\ dpc = "crawl"
    /\ failed_at = idx - 1
    /\ Cardinality(processed_urls) >= 2
    /\ processed_urls # discovered_urls

\* What holds of the counters in every state of the discovery loop.
DiscoveryBounds ==
    /\ round_num <= MaxRounds + 1
    /\ Len(unprocessed) <= RoundBatch
    /\ dpc = "crawl" => round_num <= MaxRounds /\ idx <= Len(unprocessed) + 1
    /\ crawls <= RoundBatch * (round_num - 1)
                  + (IF dpc = "crawl" THEN idx - 1 ELSE 0)
    /\ crawls <= RoundBatch * MaxRounds
    /\ dpc = "done" =>
          \/ /\ exit_reason = "frontier_empty"
             /\ Frontier(discovered_urls, processed_urls) = {}
          \/ /\ exit_reason = "safety_limit"
             /\ Cardinality(discovered_urls) > safety_limit
          \/ /\ exit_reason = "max_rounds"
             /\ round_num = MaxRounds + 1
    /\ dpc = "loop" /\ Frontier(discovered_urls, processed_urls) = {}
          => ~ENABLED StartRound
    /\ dpc = "loop" /\ Cardinality(discovered_urls) > safety_limit
          => ~ENABLED StartRound

C4_SelectedUrlsProcessed ==
    /\ \A k \in 1 .. Len(unprocessed) : k < idx => unprocessed[k] \in processed_urls
    /\ dpc \in {"loop", "done"} => Range(unprocessed) \subseteq processed_urls
    /\ dpc = "crawl" /\ failed_at > 0 => idx > failed_at

\* A round has ended in which a crawl failed and the URLs after it in the
\* slice were crawled all the same, and a later round is about to begin.
C4_Witness ==
    /\ dpc = "loop"
    /\ failed_at >= 1
    /\ failed_at < Len(unprocessed)
    /\ Frontier(discovered_urls, processed_urls) # {}

\* The link-listing job of the seed has run and yielded no links.
SeedYieldedNoLinks == seed_links = 0

\* C5: when the link-listing job of the seed yields no links, discovery ends
\* after exactly one round with discovered = processed = {seed}.
C5_SeedWithoutLinks ==
    SeedYieldedNoLinks =>
        /\ safety_limit >= 1
        /\ discovered_urls = {SeedUrl}
        /\ processed_urls = {SeedUrl}
        /\ round_num <= 2
        /\ dpc = "loop" => ~ENABLED StartRound /\ ~ENABLED ExitSafetyLimit
        /\ dpc = "done" => round_num = 2 /\ exit_reason = "frontier_empty"

\* Discovery has ended on a seed without links.
C5_Witness ==
    /\ dpc = "done"
    /\ SeedYieldedNoLinks
    /\ failed_at = 0
    /\ AllLinksFound = {SeedUrl}

---------------------------------------------------------------------------
(* _run_browser_task: the remote service as one job sees it.               *)

max_wait_time == 3600
wait_interval == 15

\* What GET /task/{id}/status may give: "none" stands for a status that
\* could not be retrieved (non-200 response, request exception, empty body).
PendingStatuses == {"queued", "running", "in_progress"}
RunningLike == {"running", "in_progress"}
TerminalStatuses == {"completed", "finished", "stopped"}

\* The forms of the "output" field of the details record.
\*   absent            missing, None or empty: not task_details.get("output")
\*   json_object       a string that json.loads parses into a dict
\*   json_nonobject    a string that json.loads parses into a list or scalar
\*   text_with_object  a string that is not JSON but holds a {...} object
\*   plain_text        a string that is not JSON and holds no object
\*   mapping           already a dict
\*   list              already a list
OutputForms ==
    {"absent", "json_object", "json_nonobject", "text_with_object",
     "plain_text", "mapping", "list"}

\* What GET /get-task-output-file/{id} may give: not_found is any non-200.
FileResponses ==
    {"not_found", "json_object", "json_nonobject", "text_with_object",
     "plain_text"}

\* The forms of the "result" field of the details record.
GenericForms == {"absent", "mapping", "non_mapping"}

\* The "error" field of the details record of a failed job.
ErrorFields == {"absent", "quota exceeded", "navigation error"}

\* bool(task_details.get("output"))
HasOutput(output) == output # "absent"

\* _extract_json_from_text(text), by the form of the text: the first {...}
\* that parses into a dict, else {"raw_output": text.strip()}.
ExtractJsonFromText(form) ==
    IF form = "text_with_object" THEN "extracted" ELSE "raw_output"

\* "if downloaded_files: result["downloaded_files"] = downloaded_files" and
\* "return result": item assignment raises TypeError on a value that is not
\* a dict (a list, a string, a number, None).
ReturnWithFiles(res, files) ==
    IF files /\ ~res.mapping
    THEN [ppc |-> "raised", result |-> NoResult,
          error |-> [kind |-> "type_error", msg |-> res.source]]
    ELSE [ppc |-> "returned", result |-> [res EXCEPT !.files = files],
          error |-> NoError]

\* The branch "if task_details.get('output')".
FromInlineOutput(output, files) ==
    LET how == CASE output = "json_object" -> "parsed"
                 [] output = "json_nonobject" -> "parsed"
                 [] output \in {"mapping", "list"} -> "as_is"
                 [] OTHER -> ExtractJsonFromText(output)
        res == [source |-> "inline", how |-> how,
                mapping |-> output \notin {"json_nonobject", "list"},
                partial |-> FALSE, files |-> FALSE]
    IN  ReturnWithFiles(res, files)

\* The branch "if output_response.status_code == 200".
FromOutputFile(file, files) ==
    LET how == IF file \in {"json_object", "json_nonobject"}
               THEN "parsed" ELSE ExtractJsonFromText(file)
        res == [source |-> "output_file", how |-> how,
                mapping |-> file # "json_nonobject",
                partial |-> FALSE, files |-> FALSE]
    IN  ReturnWithFiles(res, files)

\* No output anywhere: the placeholder of a stopped job, else the "result"
\* field or the "no output available" message.
FromNoOutputAnyStatus(st, generic, files) ==
    ReturnWithFiles([source |-> "stopped_placeholder", how |-> "as_is",
                     mapping |-> TRUE, partial |-> TRUE,
                     files |-> FALSE], files)

FromNoOutput(st, generic, files) ==
    IF st = "stopped"
    THEN ReturnWithFiles([source |-> "stopped_placeholder", how |-> "as_is",
                          mapping |-> TRUE, partial |-> TRUE,
                          files |-> FALSE], files)
    ELSE IF generic = "absent"
    THEN ReturnWithFiles([source |-> "no_output_message", how |-> "as_is",
                          mapping |-> TRUE, partial |-> FALSE,
                          files |-> FALSE], files)
    ELSE ReturnWithFiles([source |-> "generic_result", how |-> "as_is",
                          mapping |-> generic = "mapping", partial |-> FALSE,
                          files |-> FALSE], files)

\* The output extraction of the terminal branch, after the details and the
\* downloads: what it returns or raises, and whether it requested the
\* output file (asked) and read the "result" field (generic_read).
ExtractOutputFileFirst(st, output, file, generic, files) ==
    IF file # "not_found"
    THEN [out |-> FromOutputFile(file, files), asked |-> TRUE,
          generic_read |-> FALSE]
    ELSE IF HasOutput(output)
    THEN [out |-> FromInlineOutput(output, files), asked |-> TRUE,
          generic_read |-> FALSE]
    ELSE [out |-> FromNoOutput(st, generic, files), asked |-> TRUE,
          generic_read |-> st # "stopped"]

ExtractOutputStoppedFirst(st, output, file, generic, files) ==
    IF HasOutput(output)
    THEN [out |-> FromInlineOutput(output, files), asked |-> FALSE,
          generic_read |-> FALSE]
    ELSE IF st = "stopped"
    THEN [out |-> FromNoOutput(st, generic, files), asked |-> FALSE,
          generic_read |-> FALSE]
    ELSE IF file # "not_found"
    THEN [out |-> FromOutputFile(file, files), asked |-> TRUE,
          generic_read |-> FALSE]
    ELSE [out |-> FromNoOutput(st, generic, files), asked |-> TRUE,
          generic_read |-> TRUE]

ExtractOutput(st, output, file, generic, files) ==
    IF HasOutput(output)
    THEN [out |-> FromInlineOutput(output, files), asked |-> FALSE,
          generic_read |-> FALSE]
    ELSE IF file # "not_found"
    THEN [out |-> FromOutputFile(file, files), asked |-> TRUE,
          generic_read |-> FALSE]
    ELSE [out |-> FromNoOutput(st, generic, files), asked |-> TRUE,
          generic_read |-> st # "stopped"]

\* download_all_task_files(task_id): it raises before any request
\* (os.makedirs) or runs; when it runs it requests the output file once and
\* keeps every file it could fetch.  Each outcome says whether the output
\* file was requested and whether downloaded_files is non-empty, which it is
\* when the output file was there or some other artifact was fetched.
DownloadOutcomes(file) ==
    {[requested |-> FALSE, files |-> FALSE], [requested |-> TRUE, files |-> TRUE]}
        \cup (IF file = "not_found"
              THEN {[requested |-> TRUE, files |-> FALSE]} ELSE {})

\* How the download ended, as the terminal branch sees it: "raised" is an
\* exception caught at the call, which leaves downloaded_files = {}.
Artifacts(download) ==
    IF ~download.requested THEN "raised"
    ELSE IF download.files THEN "some" ELSE "none"

\* What the service can answer to the requests of the terminal branch that
\* follow the details: the output file is only drawn apart from "there or
\* not" when the extraction reads it, the "result" field when it is read.
FileResponsesRead(output) ==
    IF HasOutput(output) THEN {"not_found", "json_object"} ELSE FileResponses

GenericFormsRead(st, output, file) ==
    IF ~HasOutput(output) /\ file = "not_found" /\ st # "stopped"
    THEN GenericForms ELSE {"absent"}

\* The message of the exception raised on status "failed".
FailureMessageIgnoresDetails(details, error_field) == "Unknown error"

FailureMessage(details, error_field) ==
    IF details = "ok" /\ error_field # "absent"
    THEN error_field ELSE "Unknown error"

\* "while elapsed_time < max_wait_time"
WithinWaitTimeInclusive(elapsed) == elapsed <= max_wait_time

WithinWaitTime(elapsed) == elapsed < max_wait_time

\* Where the poller goes after a poll that retrieved no status.
AfterMissingStatusRaises == "raised"

AfterMissingStatus == "polling"

BumpCapped(n) == IF n < HistCap THEN n + 1 ELSE n

---------------------------------------------------------------------------
(* _run_browser_task: the actions.                                         *)

\* POST /run-task, then the sleep and the details fetch that only prints.
CreateTask ==
    /\ ppc = "create"
    /\ \E response \in {"ok", "rejected", "no_id"} :
          IF response = "ok"
          THEN ppc' = "polling" /\ task_details' = "creation" /\ UNCHANGED error
          ELSE /\ ppc' = "raised"
               /\ error' = [kind |-> "create_failed", msg |-> response]
               /\ UNCHANGED task_details
    /\ UNCHANGED <<elapsed_time, share_urls_shown, status, polls, running_polls,
                   status_missed, seen, result, file_requests, details_fetches,
                   running_like_seen>>

\* A poll that retrieves no status: sleep, add the interval, poll again.
PollNoStatus ==
    /\ ppc = "polling"
    /\ WithinWaitTime(elapsed_time)
    /\ polls' = polls + 1
    /\ status' = "none"
    /\ status_missed' = TRUE
    /\ ppc' = AfterMissingStatus
    /\ IF AfterMissingStatus = "polling"
       THEN elapsed_time' = elapsed_time + wait_interval /\ UNCHANGED error
       ELSE /\ error' = [kind |-> "no_status", msg |-> "none"]
            /\ UNCHANGED elapsed_time
    /\ UNCHANGED <<share_urls_shown, running_polls, seen, result, file_requests,
                   details_fetches, running_like_seen, task_details>>

\* "if not share_urls_shown and status in ["running", "in_progress"]"
DisplayFetchAlways(shown, st) == st \in RunningLike

DisplayFetchDue(shown, st) == ~shown /\ st \in RunningLike

\* A poll that observes a status that is neither terminal nor failed; a
\* running-like status fetches the details for display until one fetch
\* succeeds.
PollPending ==
    /\ ppc = "polling"
    /\ WithinWaitTime(elapsed_time)
    /\ \E st \in PendingStatuses, details_ok \in BOOLEAN :
          /\ status' = st
          /\ running_polls' = IF st = "running"
                              THEN BumpCapped(running_polls) ELSE running_polls
          /\ running_like_seen' = (running_like_seen \/ st \in RunningLike)
          /\ IF DisplayFetchDue(share_urls_shown, st)
             THEN /\ details_fetches' = BumpCapped(details_fetches)
                  /\ task_details' = "display"
                  /\ share_urls_shown' = (share_urls_shown \/ details_ok)
             ELSE UNCHANGED <<details_fetches, task_details, share_urls_shown>>
    /\ polls' = polls + 1
    /\ elapsed_time' = elapsed_time + wait_interval
    /\ UNCHANGED <<ppc, status_missed, seen, result, error, file_requests>>

\* A poll that observes completed, finished or stopped: details, downloads,
\* output extraction.
PollTerminal ==
    /\ ppc = "polling"
    /\ WithinWaitTime(elapsed_time)
    /\ polls' = polls + 1
    /\ \E st \in TerminalStatuses :
          /\ status' = st
          /\ \/ \* the details cannot be retrieved
                /\ ppc' = "returned"
                /\ result' = [source |-> "details_error", how |-> "as_is",
                              mapping |-> TRUE, partial |-> FALSE,
                              files |-> FALSE]
                /\ seen' = [NothingSeen EXCEPT !.details = "none"]
                /\ UNCHANGED <<error, file_requests>>
             \/ \E output \in OutputForms :
                \E file \in FileResponsesRead(output) :
                \E generic \in GenericFormsRead(st, output, file) :
                \E download \in DownloadOutcomes(file) :
                  LET ex == ExtractOutput(st, output, file, generic,
                                          download.files)
                  IN  /\ ppc' = ex.out.ppc
                      /\ result' = ex.out.result
                      /\ error' = ex.out.error
                      /\ seen' = [details |-> "ok",
                                  output |-> output,
                                  file |-> IF ex.asked THEN file ELSE "unasked",
                                  generic |-> IF ex.generic_read
                                              THEN generic ELSE "unread",
                                  error_field |-> "unread",
                                  artifacts |-> Artifacts(download)]
                      /\ file_requests' =
                            [download |-> IF download.requested THEN 1 ELSE 0,
                             extract |-> IF ex.asked THEN 1 ELSE 0]
    /\ task_details' = "terminal"
    /\ UNCHANGED <<elapsed_time, share_urls_shown, running_polls, status_missed,
                   details_fetches, running_like_seen>>

\* A poll that observes failed: the details are read for the message and
\* the poller raises.
PollFailed ==
    /\ ppc = "polling"
    /\ WithinWaitTime(elapsed_time)
    /\ polls' = polls + 1
    /\ status' = "failed"
    /\ \E details \in {"ok", "none"}, error_field \in ErrorFields :
          /\ details = "none" => error_field = "absent"
          /\ seen' = [NothingSeen EXCEPT !.details = details,
                                         !.error_field = error_field]
          /\ error' = [kind |-> "task_failed",
                       msg |-> FailureMessage(details, error_field)]
    /\ ppc' = "raised"
    /\ task_details' = "failed"
    /\ UNCHANGED <<elapsed_time, share_urls_shown, running_polls, status_missed,
                   result, file_requests, details_fetches, running_like_seen>>

\* The while condition is false: the poller raises the timeout.
TimedOut ==
    /\ ppc = "polling"
    /\ ~WithinWaitTime(elapsed_time)
    /\ ppc' = "raised"
    /\ error' = [kind |-> "timeout", msg |-> "none"]
    /\ UNCHANGED <<elapsed_time, share_urls_shown, status, polls, running_polls,
                   status_missed, seen, result, file_requests, details_fetches,
                   running_like_seen, task_details>>

PollerInit ==
    /\ DiscoveryIdle
    /\ ExtractIdle
    /\ RunIdle
    /\ MergeIdle
    /\ FilterIdle
    /\ MultiStepIdle
    /\ SinglePassIdle
    /\ ppc = "create"
    /\ elapsed_time = 0
    /\ share_urls_shown = FALSE
    /\ status = "unpolled"
    /\ polls = 0
    /\ running_polls = 0
    /\ status_missed = FALSE
    /\ seen = NothingSeen
    /\ result = NoResult
    /\ error = NoError
    /\ file_requests = [download |-> 0, extract |-> 0]
    /\ details_fetches = 0
    /\ running_like_seen = FALSE
    /\ task_details = "unset"

PollerNext ==
    \/ CreateTask /\ UNCHANGED <<dvars, xvars, rvars, mvars, fvars, nvars, ovars>>
    \/ PollNoStatus /\ UNCHANGED <<dvars, xvars, rvars, mvars, fvars, nvars, ovars>>
    \/ PollPending /\ UNCHANGED <<dvars, xvars, rvars, mvars, fvars, nvars, ovars>>
    \/ PollTerminal /\ UNCHANGED <<dvars, xvars, rvars, mvars, fvars, nvars, ovars>>
    \/ PollFailed /\ UNCHANGED <<dvars, xvars, rvars, mvars, fvars, nvars, ovars>>
    \/ TimedOut /\ UNCHANGED <<dvars, xvars, rvars, mvars, fvars, nvars, ovars>>

PollerSpec == PollerInit /\ [][PollerNext]_vars

---------------------------------------------------------------------------
(* Properties of the poller.                                               *)

\* The poller has returned after observing exactly running, running,
\* completed, from an inline output that is structured data.
RunningRunningCompleted ==
    /\ ppc = "returned"
    /\ status = "completed"
    /\ polls = 3
    /\ running_polls = 2
    /\ ~status_missed
    /\ seen.output \in {"json_object", "mapping"}

\* C6: in that scenario the result is not partial and the
\* output-file endpoint is never requested for the job.
C6_OutputFileNeverRequested ==
    RunningRunningCompleted =>
        /\ ~result.partial
        /\ file_requests.download + file_requests.extract = 0

\* What the code does keep of it: in that scenario the result is the inline
\* output, not partial, and the output extraction never requests the
\* output-file endpoint; the only request to it is the one
\* download_all_task_files makes before the extraction.
ExtractionNeverRequestsOutputFile ==
    RunningRunningCompleted =>
        /\ ~result.partial
        /\ result.source = "inline"
        /\ result.how \in {"parsed", "as_is"}
        /\ file_requests.extract = 0
        /\ seen.file = "unasked"
        /\ file_requests.download <= 1

\* The scenario, with the request download_all_task_files makes.
InlineScenarioWithDownloadRequest ==
    /\ RunningRunningCompleted
    /\ share_urls_shown
    /\ file_requests.download = 1

\* C7: a poll that observes failed ends the poller at that poll: it raises,
\* returns nothing, polls no more, and the exception carries the error the
\* details record reports.
C7_FailedRaisesWithMessage ==
    status = "failed" =>
        /\ ppc = "raised"
        /\ error.kind = "task_failed"
        /\ result = NoResult
        /\ seen.details = "ok" /\ seen.error_field # "absent"
              => error.msg = seen.error_field
        /\ ~ENABLED PollerNext

\* A job failed after some polls, with a message in its details.
C7_Witness ==
    /\ error.kind = "task_failed"
    /\ error.msg = "quota exceeded"
    /\ polls >= 2

\* C8: a poll that retrieves no status neither returns nor raises: the
\* poller adds one interval and stays in the loop, where, below the ceiling,
\* it can poll again and handle a terminal status.
C8_MissingStatusIsTransient ==
    /\ [][polls' = polls + 1 /\ status' = "none"
            => /\ ppc' = "polling"
               /\ elapsed_time' = elapsed_time + wait_interval
               /\ result' = result
               /\ error' = error]_vars
    /\ [](ppc = "polling" /\ status = "none" /\ WithinWaitTime(elapsed_time)
            => ENABLED PollNoStatus /\ ENABLED PollTerminal)

\* A terminal status was handled normally after a poll without status.
C8_Witness ==
    /\ ppc = "returned"
    /\ status_missed
    /\ result.source = "inline"
    /\ result.how = "parsed"

C10_OutputPriority ==
    status \in TerminalStatuses /\ seen.details = "ok" =>
        /\ HasOutput(seen.output) =>
              /\ ppc = "returned" => result.source = "inline"
              /\ ppc = "raised" => error.kind = "type_error" /\ error.msg = "inline"
              /\ seen.file = "unasked"
              /\ seen.generic = "unread"
        /\ ~HasOutput(seen.output) /\ seen.file # "not_found" =>
              /\ ppc = "returned" => result.source = "output_file"
              /\ ppc = "raised" => error.msg = "output_file"
              /\ seen.generic = "unread"
        /\ result.source = "output_file" =>
              ~HasOutput(seen.output) /\ seen.file \notin {"not_found", "unasked"}
        /\ result.source = "stopped_placeholder" =>
              /\ ~HasOutput(seen.output)
              /\ seen.file = "not_found"
              /\ status = "stopped"
        /\ result.source \in {"generic_result", "no_output_message"} =>
              /\ ~HasOutput(seen.output)
              /\ seen.file = "not_found"
              /\ status # "stopped"
              /\ result.source = "no_output_message" <=> seen.generic = "absent"

\* The output file was used for a stopped job without inline output.
C10_Witness ==
    /\ ppc = "returned"
    /\ status = "stopped"
    /\ result.source = "output_file"
    /\ seen.output = "absent"

\* C11: a stopped job without inline output and without output file makes
\* the poller return, not raise, a result flagged partial; the poller flags
\* no other result partial: none of a completed or finished job, and none
\* on a timeout (where nothing is returned).
C11_PartialOnlyWhenStoppedWithoutOutput ==
    /\ /\ ppc \in {"returned", "raised"}
       /\ status = "stopped"
       /\ seen.details = "ok"
       /\ ~HasOutput(seen.output)
       /\ seen.file = "not_found"
       => /\ ppc = "returned"
          /\ error = NoError
          /\ result.partial
          /\ result.source = "stopped_placeholder"
    /\ result.partial
       => /\ ppc = "returned"
          /\ status = "stopped"
          /\ ~HasOutput(seen.output)
          /\ seen.file = "not_found"
    /\ status \in {"completed", "finished"} => ~result.partial
    /\ error.kind = "timeout" => ~result.partial /\ result = NoResult

\* A stopped job without any output made the poller return the placeholder,
\* here together with downloaded files.
C11_Witness ==
    /\ ppc = "returned"
    /\ status = "stopped"
    /\ result.partial
    /\ result.files
    /\ seen.file = "not_found"


\* What the terminal branch returns when download_all_task_files brings
\* nothing (downloaded_files = {}), from what the branch read of the job.
NoArtifactOutcome ==
    ExtractOutput(status, seen.output,
                  IF seen.file = "unasked" THEN "not_found" ELSE seen.file,
                  IF seen.generic = "unread" THEN "absent" ELSE seen.generic,
                  FALSE).out

\* C31: artifacts never change the outcome of the poller: on a terminal
\* status whose details were retrieved, whatever the artifact endpoints
\* gave, the poller returns what it returns without any artifact, up to the
\* downloaded_files entry, and raises nothing.
C31_ArtifactsNeverChangeOutcome ==
    status \in TerminalStatuses /\ seen.details = "ok" =>
        /\ ppc = NoArtifactOutcome.ppc
        /\ error = NoArtifactOutcome.error
        /\ [result EXCEPT !.files = FALSE] = NoArtifactOutcome.result

\* The returned result is computed from what the terminal branch read
\* after its own details fetch, and from nothing else.
ResultFromTerminalReads ==
    ppc = "returned" /\ seen.details = "ok" =>
        /\ task_details = "terminal"
        /\ result =
              ExtractOutput(status, seen.output,
                            IF seen.file = "unasked" THEN "not_found"
                            ELSE seen.file,
                            IF seen.generic = "unread" THEN "absent"
                            ELSE seen.generic,
                            result.files).out.result

\* C32 as stated: the details are fetched for display exactly once, at the
\* first poll that observes a running-like status, and never again.
C32_DisplayFetchExactlyOnce ==
    IF running_like_seen THEN details_fetches = 1 ELSE details_fetches = 0

\* C32, as the code has it: the first poll that observes a running-like
\* status fetches the details for display; a later running-like poll
\* fetches them again only as long as no such fetch has retrieved them, and
\* once one has (share_urls_shown) no poll fetches them any more; the
\* returned result is built from the details the terminal branch fetches
\* itself, never from those fetched for display.
C32_DisplayFetchUntilShown ==
    /\ [][details_fetches' # details_fetches
            => /\ ppc = "polling"
               /\ ~share_urls_shown
               /\ status' \in RunningLike
               /\ task_details' = "display"]_vars
    /\ [][~running_like_seen /\ running_like_seen'
            => details_fetches' = 1]_vars
    /\ [][share_urls_shown
            => share_urls_shown' /\ details_fetches' = details_fetches]_vars
    /\ [](running_like_seen <=> details_fetches >= 1)
    /\ [](share_urls_shown => details_fetches >= 1)
    /\ []ResultFromTerminalReads
    /\ [](error.kind = "task_failed" => task_details = "failed")

\* The details were fetched for display at two polls, the second fetch
\* retrieved them, further running-like polls followed, and the poller
\* returned the inline output of the completed job.
C32_Witness ==
    /\ ppc = "returned"
    /\ details_fetches = 2
    /\ share_urls_shown
    /\ polls >= 4
    /\ status = "completed"
    /\ result.source = "inline"
    /\ task_details = "terminal"

\* C34: whenever the poller returns on a terminal status, the value it
\* returns is a mapping.
C34_ReturnedValueIsMapping ==
    ppc = "returned" /\ status \in TerminalStatuses => result.mapping

---------------------------------------------------------------------------
(* _extract_json_from_text.  A text is a sequence of tokens:               *)
(*   "{" "}"   the braces                                                  *)
(*   "a" "b"   a complete member, as "a":1 and "b":2                       *)
(*   "k:"      a key and its colon, to be followed by a value              *)
(*   "w"       a word that is not JSON, as ok or trailing                  *)
(*   " "       whitespace                                                  *)

Alphabet == {"{", "}", "a", "b", "k:", "w", " "}

\* The text of the scenario: ok {"a":1} trailing {"b":2}
ScenarioText == <<"w", " ", "{", "a", "}", " ", "w", " ", "{", "b", "}">>

\* An object nested too deep for the pattern: {"k":{"k":{"a":1}}}
DeepText == <<"{", "k:", "{", "k:", "{", "a", "}", "}", "}">>

\* A malformed object before a well-formed one: {oops} {"b":2}
MalformedFirstText == <<"{", "w", "}", " ", "{", "b", "}">>

Texts ==
    UNION {[1 .. n -> Alphabet] : n \in 0 .. MaxTextLen}
        \cup {ScenarioText, DeepText, MalformedFirstText}

\* [^{}]
NonBrace(t) == t \notin {"{", "}"}

\* [^{}]* from position i: the position of the next brace, Len + 1 if none.
RECURSIVE SkipNonBrace(_, _)
SkipNonBrace(s, i) ==
    IF i <= Len(s) /\ NonBrace(s[i]) THEN SkipNonBrace(s, i + 1) ELSE i

\* (?:\{[^{}]*\}[^{}]*)*\} from position j, which holds a brace or is past
\* the end: the position of the closing brace of the match, 0 if none.
RECURSIVE GroupLoop(_, _)
GroupLoop(s, j) ==
    IF j > Len(s) THEN 0
    ELSE IF s[j] = "}" THEN j
    ELSE LET k == SkipNonBrace(s, j + 1)
         IN  IF k <= Len(s) /\ s[k] = "}"
             THEN GroupLoop(s, SkipNonBrace(s, k + 1))
             ELSE 0

\* json_pattern matched at position i: the end of the match, 0 if none.
MatchEnd(s, i) ==
    IF s[i] = "{" THEN GroupLoop(s, SkipNonBrace(s, i + 1)) ELSE 0

\* re.findall(json_pattern, text, re.DOTALL) from position i on: the
\* matches from left to right, each search resuming after the last match.
RECURSIVE FindAll(_, _)
FindAll(s, i) ==
    IF i > Len(s) THEN <<>>
    ELSE IF MatchEnd(s, i) # 0
    THEN <<SubSeq(s, i, MatchEnd(s, i))>> \o FindAll(s, MatchEnd(s, i) + 1)
    ELSE FindAll(s, i + 1)

\* The text without its whitespace, which JSON allows between tokens.
Compact(s) == FilterSeq(s, Alphabet \ {" "})

\* The texts that are a JSON object: {}, {"a":1}, {"b":2}, {"k":<object>}
RECURSIVE IsObject(_)
IsObject(c) ==
    \/ c \in {<<"{", "}">>, <<"{", "a", "}">>, <<"{", "b", "}">>}
    \/ /\ Len(c) >= 5
       /\ c[1] = "{" /\ c[2] = "k:" /\ c[Len(c)] = "}"
       /\ IsObject(SubSeq(c, 3, Len(c) - 1))

\* json.loads(match) and isinstance(parsed, dict): the mapping is written
\* as the object's tokens without whitespace.
JsonLoads(s) ==
    IF IsObject(Compact(s))
    THEN [ok |-> TRUE, value |-> Compact(s)]
    ELSE [ok |-> FALSE, value |-> <<>>]

\* "for match in matches": the index of the match that is returned, 0 if
\* the loop ends without a return.
RECURSIVE LastParsing(_, _)
LastParsing(matches, k) ==
    IF k > Len(matches) THEN 0
    ELSE IF LastParsing(matches, k + 1) # 0 THEN LastParsing(matches, k + 1)
    ELSE IF JsonLoads(matches[k]).ok THEN k ELSE 0

RECURSIVE FirstParsing(_, _)
FirstParsing(matches, k) ==
    IF k > Len(matches) THEN 0
    ELSE IF JsonLoads(matches[k]).ok THEN k
    ELSE FirstParsing(matches, k + 1)

\* text.strip()
RECURSIVE LStrip(_)
LStrip(s) == IF s # <<>> /\ s[1] = " " THEN LStrip(Tail(s)) ELSE s

RECURSIVE RStrip(_)
RStrip(s) ==
    IF s # <<>> /\ s[Len(s)] = " " THEN RStrip(SubSeq(s, 1, Len(s) - 1)) ELSE s

StripKeepsTrailing(s) == LStrip(s)

Strip(s) == RStrip(LStrip(s))

\* The value of raw_output for an empty text.
NoOutputText == <<"No output">>

\* _extract_json_from_text(text)
ExtractJsonFromTokens(s) ==
    IF s = <<>> THEN [kind |-> "raw_output", value |-> NoOutputText]
    ELSE LET matches == FindAll(s, 1)
             k == FirstParsing(matches, 1)
         IN  IF k # 0
             THEN [kind |-> "parsed", value |-> JsonLoads(matches[k]).value]
             ELSE [kind |-> "raw_output", value |-> Strip(s)]

\* The call and its return.
Extract ==
    /\ xpc = "call"
    /\ extracted' = ExtractJsonFromTokens(input_text)
    /\ xpc' = "returned"
    /\ UNCHANGED input_text

ExtractInit ==
    /\ DiscoveryIdle
    /\ PollerIdle
    /\ RunIdle
    /\ MergeIdle
    /\ FilterIdle
    /\ MultiStepIdle
    /\ SinglePassIdle
    /\ xpc = "call"
    /\ input_text \in Texts
    /\ extracted = NotExtracted

ExtractNext == Extract /\ UNCHANGED <<dvars, pvars, rvars, mvars, fvars, nvars, ovars>>

ExtractSpec == ExtractInit /\ [][ExtractNext]_vars

---------------------------------------------------------------------------
(* Properties of _extract_json_from_text.                                  *)

\* The brace-delimited substrings of the text, with at most one level of
\* nested braces, that parse into a mapping, as pairs of their first and
\* last position.
ParsingSubstrings(s) ==
    {p \in (1 .. Len(s)) \X (1 .. Len(s)) :
        /\ p[2] = MatchEnd(s, p[1])
        /\ JsonLoads(SubSeq(s, p[1], p[2])).ok}

\* C12: the function returns the first brace-delimited substring, in order
\* of appearance, that parses into a mapping (for the text of the scenario
\* that is {"a":1}), whatever malformed substring comes before it.
C12_FirstParsingSubstring ==
    xpc = "returned" /\ ParsingSubstrings(input_text) # {} =>
        /\ extracted.kind = "parsed"
        /\ \E p \in ParsingSubstrings(input_text) :
              /\ \A q \in ParsingSubstrings(input_text) : p[1] <= q[1]
              /\ extracted.value = JsonLoads(SubSeq(input_text, p[1], p[2])).value

\* C12 as amended: the candidates are the matches of one scan from left to
\* right, each brace-delimited with at most one level of nested braces and
\* none overlapping an earlier one; the function returns the first
\* candidate that parses into a mapping, skipping those that do not, and
\* for the text of the scenario that is {"a":1}.
C12_FirstParsingCandidate ==
    xpc = "returned" =>
        LET candidates == FindAll(input_text, 1)
            parsing == {k \in 1 .. Len(candidates) : JsonLoads(candidates[k]).ok}
        IN  /\ parsing # {} =>
                 /\ extracted.kind = "parsed"
                 /\ \E k \in parsing :
                       /\ \A j \in parsing : k <= j
                       /\ extracted.value = JsonLoads(candidates[k]).value
            /\ parsing = {} => extracted.kind = "raw_output"
            /\ input_text = ScenarioText => extracted.value = <<"{", "a", "}">>

\* A malformed candidate was skipped in favour of the next one.
C12_Witness ==
    /\ xpc = "returned"
    /\ Len(FindAll(input_text, 1)) = 2
    /\ ~JsonLoads(FindAll(input_text, 1)[1]).ok
    /\ extracted = [kind |-> "parsed", value |-> <<"{", "b", "}">>]

---------------------------------------------------------------------------
(* The review run: what a job gives back to the caller that awaits it.     *)

\* The pages of the site of a whole run.
RunSite == 1 .. RunPages

\* The value of scores.overall in the reviews the service writes.
PageScores == {8}

\* How a call of _run_browser_task ends for its caller: it raises, or it
\* returns a value of one of these forms
\*   mapping        a non-empty dict, with or without "scores", "overall"
\*                  and "partial_result"
\*   empty_mapping  {}, as json.loads gives for the output "{}"
\*   list           a non-empty list, as json.loads gives for a JSON array
JobRaised == [raised |-> TRUE, form |-> "none", has_scores |-> FALSE,
              overall |-> -1, partial |-> FALSE]

Returned(form, has_scores, overall, partial) ==
    [raised |-> FALSE, form |-> form, has_scores |-> has_scores,
     overall |-> overall, partial |-> partial]

PageJobOutcomes ==
    {JobRaised}
        \cup {Returned("mapping", TRUE, s, FALSE) : s \in PageScores}
        \cup {Returned("mapping", TRUE, -1, FALSE),
              Returned("mapping", FALSE, -1, FALSE),
              Returned("mapping", FALSE, -1, TRUE),
              Returned("empty_mapping", FALSE, -1, FALSE),
              Returned("list", FALSE, -1, FALSE)}

SummaryJobOutcomes ==
    {JobRaised,
     Returned("mapping", FALSE, -1, FALSE),
     Returned("mapping", FALSE, -1, TRUE),
     Returned("empty_mapping", FALSE, -1, FALSE),
     Returned("list", FALSE, -1, FALSE)}

\* bool(value)
Truthy(form) == form \notin {"empty_mapping", "none"}

\* "await self._run_browser_task(...)": the job is submitted, and the
\* caller resumes when its poller has returned or raised.
JobSubmitted(n) == n + 1

JobLeftRunning(n) == n

JobEnded(n) == n - 1

---------------------------------------------------------------------------
(* _review_single_page and the review loop.                                *)

\* _review_single_page(url), its job ending as o: the entry for the page.
ReviewSinglePage(url, o) ==
    IF o.raised
    THEN [url |-> url, form |-> "mapping", has_scores |-> TRUE, overall |-> 0,
          error |-> TRUE, warning |-> FALSE]
    ELSE IF o.form = "mapping" /\ o.partial
    THEN [url |-> url, form |-> "mapping", has_scores |-> TRUE, overall |-> 5,
          error |-> FALSE, warning |-> TRUE]
    ELSE [url |-> url, form |-> o.form, has_scores |-> o.has_scores,
          overall |-> o.overall, error |-> FALSE, warning |-> FALSE]

\* "if review: page_reviews.append(review)"
AppendReview(reviews, review) ==
    IF Truthy(review.form) THEN Append(reviews, review) ELSE reviews

\* The review phase begins when _exhaustive_review has left its loop.
ReviewMayStartEarly(pc) == pc \in {"loop", "done"}

ReviewMayStart(pc) == pc = "done"

---------------------------------------------------------------------------
(* _generate_exhaustive_overall_analysis.                                  *)

\* "scores" in review and "overall" in review["scores"]
HasOverall(review) == review.has_scores /\ review.overall # -1

\* The list scores.
OverallScoresZeroForMissing(reviews) ==
    [k \in 1 .. Len(reviews) |->
        IF HasOverall(reviews[k]) THEN reviews[k].overall ELSE 0]

OverallScores(reviews) ==
    LET with_overall == SelectSeq(reviews, HasOverall)
    IN  [k \in 1 .. Len(with_overall) |-> with_overall[k].overall]

RECURSIVE SumSeq(_)
SumSeq(q) == IF q = <<>> THEN 0 ELSE Head(q) + SumSeq(Tail(q))

\* avg_score = sum(scores) / len(scores) if scores else 0, as a fraction
AvgScore(scores) ==
    IF scores = <<>> THEN <<0, 1>> ELSE <<SumSeq(scores), Len(scores)>>

\* score_distribution
ScoreDistribution(scores) ==
    [excellent |-> Cardinality({k \in 1 .. Len(scores) : scores[k] >= 8}),
     good |-> Cardinality({k \in 1 .. Len(scores) :
                              6 <= scores[k] /\ scores[k] < 8}),
     needs_improvement |-> Cardinality({k \in 1 .. Len(scores) :
                              4 <= scores[k] /\ scores[k] < 6}),
     poor |-> Cardinality({k \in 1 .. Len(scores) :
                              1 <= scores[k] /\ scores[k] < 4})]

\* The statistics and the task description are computed outside the try:
\* an entry that is not a dict makes them raise (r.get(...) on a list).
AggregationRaises(reviews) ==
    \E k \in 1 .. Len(reviews) : reviews[k].form # "mapping"

\* The fallback analysis, built from the statistics.
FallbackAnalysis(st) ==
    [source |-> "fallback", form |-> "mapping", note |-> "fallback",
     avg |-> st.avg, dist |-> st.dist, assessment |-> TRUE]

\* What the aggregator returns, its job ending as o.
AnalysisFrom(o, st) ==
    IF o.raised \/ ~Truthy(o.form)
    THEN FallbackAnalysis(st)
    ELSE [source |-> "remote", form |-> o.form,
          note |-> IF o.form = "mapping" /\ o.partial THEN "stopped" ELSE "none",
          avg |-> NoStats.avg, dist |-> NoStats.dist, assessment |-> FALSE]

---------------------------------------------------------------------------
(* The run: the actions.                                                   *)

\* A step of the discovery loop that runs no job.
DiscoveryStep ==
    /\ rpc = "discovery"
    /\ call = "none"
    /\ \/ ExitFrontierEmpty
       \/ ExitSafetyLimit
       \/ StartRound
       \/ EndRound
    /\ UNCHANGED rvars

\* _extract_documentation_links submits its job.
SubmitLinksJob ==
    /\ rpc = "discovery"
    /\ call = "none"
    /\ dpc = "crawl"
    /\ idx <= Len(unprocessed)
    /\ call' = "links"
    /\ in_flight' = JobSubmitted(in_flight)
    /\ UNCHANGED <<dvars, rpc, discovery_order, all_urls, ri, page_reviews,
                   stats, overall_review, last_outcome>>

\* The URLs a crawl added, in the order of its adds.
OrderAfter(order, new_links, added) == order \o FilterSeq(new_links, added)

\* The rest of the loop body once the links are known; the site has the
\* pages of RunSite only.
FinishCrawl(job) ==
    /\ CrawlWith(job)
    /\ discovered_urls' \subseteq RunSite
    /\ discovery_order' =
          OrderAfter(discovery_order,
                     ExtractDocumentationLinks(unprocessed[idx], job),
                     discovered_urls' \ discovered_urls)

\* The job of _extract_documentation_links returns, or it raises and the
\* except branch is entered.
LinksJobEnds ==
    /\ rpc = "discovery"
    /\ call = "links"
    /\ in_flight' = JobEnded(in_flight)
    /\ \/ /\ \E job \in JobOutcomes(unprocessed[idx]) :
                job.primary = "ok" /\ FinishCrawl(job)
          /\ call' = "none"
       \/ /\ call' = "links_raised"
          /\ UNCHANGED <<dvars, discovery_order>>
    /\ UNCHANGED <<rpc, all_urls, ri, page_reviews, stats, overall_review,
                   last_outcome>>

\* _simple_link_extraction submits its job.
SubmitSimpleJob ==
    /\ rpc = "discovery"
    /\ call = "links_raised"
    /\ call' = "simple"
    /\ in_flight' = JobSubmitted(in_flight)
    /\ UNCHANGED <<dvars, rpc, discovery_order, all_urls, ri, page_reviews,
                   stats, overall_review, last_outcome>>

\* The job of _simple_link_extraction returns or raises.
SimpleJobEnds ==
    /\ rpc = "discovery"
    /\ call = "simple"
    /\ in_flight' = JobEnded(in_flight)
    /\ \E job \in JobOutcomes(unprocessed[idx]) :
          job.primary = "raised" /\ FinishCrawl(job)
    /\ call' = "none"
    /\ UNCHANGED <<rpc, all_urls, ri, page_reviews, stats, overall_review,
                   last_outcome>>

\* list(discovered_urls): the order of the list built from a set of strings
\* is the order of their hashes, which differs from run to run.
Orderings(S) == {q \in [1 .. Cardinality(S) -> S] : Range(q) = S}

\* all_links = list(discovered_urls) and the call of
\* _multi_step_exhaustive_review.
StartReview ==
    /\ rpc = "discovery"
    /\ call = "none"
    /\ ReviewMayStart(dpc)
    /\ all_urls' \in Orderings(AllLinksFound)
    /\ ri' = 1
    /\ page_reviews' = <<>>
    /\ rpc' = "review"
    /\ UNCHANGED <<dvars, call, in_flight, discovery_order, stats,
                   overall_review, last_outcome>>

\* _review_single_page submits its job.
SubmitPageJob ==
    /\ rpc = "review"
    /\ call = "none"
    /\ ri <= Len(all_urls)
    /\ call' = "page"
    /\ in_flight' = JobSubmitted(in_flight)
    /\ UNCHANGED <<dvars, rpc, discovery_order, all_urls, ri, page_reviews,
                   stats, overall_review, last_outcome>>

\* The job of _review_single_page ends, and the loop body with it.
PageJobEnds ==
    /\ rpc = "review"
    /\ call = "page"
    /\ in_flight' = JobEnded(in_flight)
    /\ \E o \in PageJobOutcomes :
          /\ page_reviews' =
                AppendReview(page_reviews, ReviewSinglePage(all_urls[ri], o))
          /\ last_outcome' = o
    /\ ri' = ri + 1
    /\ call' = "none"
    /\ UNCHANGED <<dvars, rpc, discovery_order, all_urls, stats,
                   overall_review>>

\* The aggregator is called: it computes the statistics and the task
\* description, which may raise, and submits its job.
Aggregate ==
    /\ rpc = "review"
    /\ call = "none"
    /\ ri > Len(all_urls)
    /\ IF AggregationRaises(page_reviews)
       THEN /\ rpc' = "raised"
            /\ UNCHANGED <<call, in_flight, stats>>
       ELSE /\ stats' = [avg |-> AvgScore(OverallScores(page_reviews)),
                         dist |-> ScoreDistribution(OverallScores(page_reviews))]
            /\ rpc' = "analysis"
            /\ call' = "summary"
            /\ in_flight' = JobSubmitted(in_flight)
    /\ UNCHANGED <<dvars, discovery_order, all_urls, ri, page_reviews,
                   overall_review, last_outcome>>

\* The job of the aggregator ends: its result or the fallback is returned.
SummaryJobEnds ==
    /\ rpc = "analysis"
    /\ call = "summary"
    /\ in_flight' = JobEnded(in_flight)
    /\ \E o \in SummaryJobOutcomes :
          /\ overall_review' = AnalysisFrom(o, stats)
          /\ last_outcome' = o
    /\ call' = "none"
    /\ rpc' = "done"
    /\ UNCHANGED <<dvars, discovery_order, all_urls, ri, page_reviews, stats>>

RunInit ==
    /\ dpc = "loop"
    /\ safety_limit \in 0 .. RunPages
    /\ discovered_urls = {SeedUrl}
    /\ processed_urls = {}
    /\ round_num = 1
    /\ unprocessed = <<>>
    /\ idx = 0
    /\ exit_reason = "none"
    /\ crawls = 0
    /\ seed_links = -1
    /\ failed_at = 0
    /\ PollerIdle
    /\ ExtractIdle
    /\ rpc = "discovery"
    /\ call = "none"
    /\ in_flight = 0
    /\ discovery_order = <<SeedUrl>>
    /\ all_urls = <<>>
    /\ ri = 0
    /\ page_reviews = <<>>
    /\ stats = NoStats
    /\ overall_review = NoAnalysis
    /\ last_outcome = NoOutcome
    /\ MergeIdle
    /\ FilterIdle
    /\ MultiStepIdle
    /\ SinglePassIdle

RunNext ==
    \/ DiscoveryStep /\ UNCHANGED <<pvars, xvars, mvars, fvars, nvars, ovars>>
    \/ SubmitLinksJob /\ UNCHANGED <<pvars, xvars, mvars, fvars, nvars, ovars>>
    \/ LinksJobEnds /\ UNCHANGED <<pvars, xvars, mvars, fvars, nvars, ovars>>
    \/ SubmitSimpleJob /\ UNCHANGED <<pvars, xvars, mvars, fvars, nvars, ovars>>
    \/ SimpleJobEnds /\ UNCHANGED <<pvars, xvars, mvars, fvars, nvars, ovars>>
    \/ StartReview /\ UNCHANGED <<pvars, xvars, mvars, fvars, nvars, ovars>>
    \/ SubmitPageJob /\ UNCHANGED <<pvars, xvars, mvars, fvars, nvars, ovars>>
    \/ PageJobEnds /\ UNCHANGED <<pvars, xvars, mvars, fvars, nvars, ovars>>
    \/ Aggregate /\ UNCHANGED <<pvars, xvars, mvars, fvars, nvars, ovars>>
    \/ SummaryJobEnds /\ UNCHANGED <<pvars, xvars, mvars, fvars, nvars, ovars>>

RunSpec == RunInit /\ [][RunNext]_vars

---------------------------------------------------------------------------
(* Properties of the review run.                                           *)

\* The review loop is over and the aggregator has its statistics.
ReviewsCollected == rpc \in {"analysis", "done"}

\* C14: a staged review over N URLs produces exactly N entries, the k-th
\* for the k-th URL; a URL whose job raised has an entry with an error and
\* overall score 0, and the loop goes on after it.
C14_OneEntryPerUrl ==
    /\ rpc \in {"review", "analysis", "done"} =>
          /\ Len(page_reviews) = ri - 1
          /\ \A k \in 1 .. Len(page_reviews) : page_reviews[k].url = all_urls[k]
    /\ ReviewsCollected => Len(page_reviews) = Len(all_urls)
    /\ rpc = "review" /\ call = "none" /\ ri > 1 /\ last_outcome.raised =>
          /\ page_reviews # <<>>
          /\ page_reviews[Len(page_reviews)].error
          /\ page_reviews[Len(page_reviews)].overall = 0

\* The scores of the entries that are not the degraded entry of a failed
\* review.
ScoresOfSucceeded(reviews) ==
    LET succeeded == SelectSeq(reviews, LAMBDA r : HasOverall(r) /\ ~r.error)
    IN  [k \in 1 .. Len(succeeded) |-> succeeded[k].overall]

\* Equality of two fractions.
SameFraction(a, b) == a[1] * b[2] = b[1] * a[2]

\* C15: the mean the aggregator computes is the mean of the overall scores
\* of the entries other than the degraded entries of failed reviews.
C15_MeanExcludesFailed ==
    ReviewsCollected =>
        SameFraction(stats.avg, AvgScore(ScoresOfSucceeded(page_reviews)))

\* The sum of the overall scores of the entries at the positions in S.
RECURSIVE SumOverall(_, _)
SumOverall(reviews, S) ==
    IF S = {} THEN 0
    ELSE LET k == CHOOSE n \in S : TRUE
         IN  reviews[k].overall + SumOverall(reviews, S \ {k})

\* C16: the mean is the sum of the overall scores that are present divided
\* by the number of entries that have one; an entry without scores or
\* without an overall score counts for neither; without any score the mean
\* is 0.
C16_MeanOfPresentScores ==
    ReviewsCollected =>
        LET present == {k \in 1 .. Len(page_reviews) :
                           /\ page_reviews[k].has_scores
                           /\ page_reviews[k].overall # -1}
        IN  IF present = {}
            THEN stats.avg = <<0, 1>>
            ELSE stats.avg = <<SumOverall(page_reviews, present),
                               Cardinality(present)>>

\* Three entries, one without scores, one with scores but no overall score,
\* one with the score 8: the mean is 8.
C16_Witness ==
    /\ rpc = "done"
    /\ Len(page_reviews) = 3
    /\ \E k \in 1 .. 3 : ~page_reviews[k].has_scores
    /\ \E k \in 1 .. 3 : page_reviews[k].has_scores /\ page_reviews[k].overall = -1
    /\ stats.avg = <<8, 1>>

\* C17: the aggregator never raises and never returns an empty analysis;
\* when its job raised or returned nothing, it returns the summary built
\* from the statistics: the mean, the histogram and an overall assessment.
C17_AggregatorNeverRaises ==
    /\ rpc # "raised"
    /\ rpc = "done" =>
          /\ overall_review.source # "none"
          /\ Truthy(overall_review.form)
          /\ last_outcome.raised \/ ~Truthy(last_outcome.form) =>
                /\ overall_review.source = "fallback"
                /\ overall_review.avg = stats.avg
                /\ overall_review.dist = stats.dist
                /\ overall_review.assessment

\* C18: no page-review job is submitted before discovery has ended, by an
\* empty frontier or a safety bound, and discovery does not resume; the job
\* of the analysis is submitted only when the review loop has been through
\* every page.
C18_PhasesInOrder ==
    /\ [](rpc \in {"review", "analysis", "done", "raised"} =>
            /\ dpc = "done"
            /\ \/ Frontier(discovered_urls, processed_urls) = {}
               \/ SafetyLimitExceeded(discovered_urls, safety_limit)
               \/ RoundBoundExceeded(round_num)
            /\ Range(all_urls) = discovered_urls)
    /\ [](call = "page" => rpc = "review")
    /\ [](call = "summary" \/ ReviewsCollected =>
            /\ ri = Len(all_urls) + 1
            /\ Range(all_urls) = discovered_urls)
    /\ [][rpc # "discovery" => UNCHANGED dvars]_vars
    /\ [][call' = "summary" /\ call # "summary" =>
            rpc = "review" /\ call = "none" /\ ri > Len(all_urls)]_vars

\* A run over three pages is over, one review having failed.
C18_Witness ==
    /\ rpc = "done"
    /\ Len(all_urls) = 3
    /\ Len(page_reviews) = 3
    /\ \E k \in 1 .. 3 : page_reviews[k].error
    /\ crawls = 3

\* C19: the pages are reviewed in discovery order, the seed first: the
\* k-th review job is for the k-th URL added to discovered_urls.
C19_ReviewedInDiscoveryOrder ==
    rpc \in {"review", "analysis", "done", "raised"} =>
        /\ all_urls = discovery_order
        /\ all_urls[1] = SeedUrl

\* C20: at most one job is in flight, and a job is only submitted when none
\* is: the poller of the job before it has returned or raised.
C20_OneJobInFlight ==
    /\ [](in_flight \in {0, 1})
    /\ [](in_flight = 1 <=> call \in {"links", "simple", "page", "summary"})
    /\ [][in_flight' > in_flight => in_flight = 0 /\ in_flight' = 1]_vars

\* The job of the analysis is in flight, after those of the crawls, one of
\* them with its fallback, and of the reviews.
C20_Witness ==
    /\ call = "summary"
    /\ in_flight = 1
    /\ crawls >= 2
    /\ failed_at > 0
    /\ Len(page_reviews) >= 2

\* The number of scores the four buckets of the histogram hold together.
InBuckets(dist) ==
    dist.excellent + dist.good + dist.needs_improvement + dist.poor

\* C33: every overall score that entered the mean is counted in exactly one
\* of the four buckets: the four counts sum to the number of scores.
C33_BucketsCoverScores ==
    ReviewsCollected =>
        InBuckets(stats.dist) = Len(OverallScores(page_reviews))

---------------------------------------------------------------------------
(* merge_results_with_file and merge_with_review_results.  A record (a     *)
(* dict) is a function from its keys to their values.  A key is the        *)
(* sequence of the tokens of its name, so that f"ai_file_{key}" is the     *)
(* key with the token "ai_file_" put before it.                            *)

\* Number of distinct URLs in the page reviews of the records.
MergeUrls == 2
\* The results record has up to MaxOwnReviews page reviews.
MaxOwnReviews == 2
\* The file has up to MaxFileReviews page reviews.
MaxFileReviews == 3
\* The totals range over 0 .. MaxTotal.
MaxTotal == 2

KeyPageReviews == <<"page_reviews">>
KeySiteAnalysis == <<"site_analysis">>
KeyEnhancedSiteAnalysis == <<"enhanced_site_analysis">>
KeyOverallReview == <<"overall_review">>
KeyTotalReviewed == <<"total_pages_reviewed">>
KeyTotalDiscovered == <<"total_pages_discovered">>
KeyAiGeneratedFile == <<"ai_generated_file">>
KeyHasAiGeneratedFile == <<"has_ai_generated_file">>
KeyAiFileError == <<"ai_file_", "error">>
KeySummaryStats == <<"summary_stats">>
KeySummary == <<"summary">>
KeyReviewApproach == <<"review_approach">>

\* f"ai_file_{key}"
Namespaced(key) == <<"ai_file_">> \o key

\* key in rec, rec.get(key, default), rec[key] = value
Has(rec, key) == key \in DOMAIN rec
Get(rec, key, default) == IF key \in DOMAIN rec THEN rec[key] ELSE default
Put(rec, key, value) ==
    [x \in DOMAIN rec \cup {key} |-> IF x = key THEN value ELSE rec[x]]

\* The value of "page_reviews": a list of entries, or (in a file) a value
\* that is not a list.
PageList(items) == [is_list |-> TRUE, items |-> items]
NotAList == [is_list |-> FALSE, items |-> <<>>]

\* An entry of a list of page reviews: a mapping, with url 0 when it has no
\* "url" key, or (in a file) a JSON string.
Entry(url, origin) == [form |-> "mapping", url |-> url, origin |-> origin]
TextEntry == [form |-> "text", url |-> 0, origin |-> "file"]

\* {page.get("url") for page in items}, which raises on an entry that is
\* not a mapping
UrlsOfNone(items) == {}

UrlsOf(items) == {items[n].url : n \in 1 .. Len(items)}
UrlsRaise(items) == \E n \in 1 .. Len(items) : items[n].form # "mapping"

\* "for page_review in file_content['page_reviews']": the list after the
\* appends, and whether page_review.get raised on the way.
RECURSIVE AppendAll(_, _, _)
AppendAll(list, file_items, existing_urls) ==
    IF file_items = <<>> THEN [items |-> list, raised |-> FALSE]
    ELSE IF Head(file_items).form # "mapping"
    THEN [items |-> list, raised |-> TRUE]
    ELSE AppendAll(Append(list, Head(file_items)), Tail(file_items),
                   existing_urls)

RECURSIVE AppendMissing(_, _, _)
AppendMissing(list, file_items, existing_urls) ==
    IF file_items = <<>> THEN [items |-> list, raised |-> FALSE]
    ELSE IF Head(file_items).form # "mapping"
    THEN [items |-> list, raised |-> TRUE]
    ELSE AppendMissing(IF Head(file_items).url \notin existing_urls
                       THEN Append(list, Head(file_items)) ELSE list,
                       Tail(file_items), existing_urls)

\* len(file_content["page_reviews"]) > len(merged_results.get("page_reviews", []))
FileListLonger(file_items, own_items) == Len(file_items) > Len(own_items)

\* merged_results["page_reviews"] = file_content["page_reviews"]
ReviewsKeptWhenFileLonger(file_items, own_items) == own_items

ReviewsWhenFileLonger(file_items, own_items) == file_items

\* The merge of the page reviews.  rec is the copy of the record and res the
\* record itself: the copy is shallow, so an append to the list of the copy
\* is an append to the list of the record.  skip_empty is the viewer's
\* "elif len(ai_reviews) > 0".
MergePageReviews(rec, res, fc, skip_empty) ==
    IF ~(Has(fc, KeyPageReviews) /\ fc[KeyPageReviews].is_list)
    THEN [rec |-> rec, res |-> res, raised |-> FALSE]
    ELSE LET file_items == fc[KeyPageReviews].items
             own_items == Get(rec, KeyPageReviews, PageList(<<>>)).items
         IN  IF FileListLonger(file_items, own_items)
             THEN [rec |-> Put(rec, KeyPageReviews,
                               PageList(ReviewsWhenFileLonger(file_items,
                                                              own_items))),
                   res |-> res, raised |-> FALSE]
             ELSE IF skip_empty /\ file_items = <<>>
             THEN [rec |-> rec, res |-> res, raised |-> FALSE]
             ELSE IF UrlsRaise(own_items)
             THEN [rec |-> Put(rec, KeyPageReviews, PageList(own_items)),
                   res |-> res, raised |-> TRUE]
             ELSE LET after == AppendMissing(own_items, file_items,
                                             UrlsOf(own_items))
                  IN  [rec |-> Put(rec, KeyPageReviews, PageList(after.items)),
                       res |-> IF Has(res, KeyPageReviews)
                               THEN Put(res, KeyPageReviews,
                                        PageList(after.items))
                               ELSE res,
                       raised |-> after.raised]

\* "if 'site_analysis' in file_content"
MergeSiteAnalysis(rec, fc) ==
    IF Has(fc, KeySiteAnalysis)
    THEN LET enhanced == Put(rec, KeyEnhancedSiteAnalysis, fc[KeySiteAnalysis])
         IN  IF ~Has(enhanced, KeyOverallReview)
             THEN Put(enhanced, KeyOverallReview, fc[KeySiteAnalysis])
             ELSE enhanced
    ELSE rec

\* "if file_total > current_total: merged_results[key] = file_total"
TotalTakesFile(current_total, file_total) == TRUE

FileTotalWins(current_total, file_total) == file_total > current_total

\* The merge of one total.  truthy_only is the test "and file_content[key]"
\* of merge_results_with_file, which the viewer does not make.
MergeTotal(rec, fc, key, truthy_only) ==
    IF /\ Has(fc, key)
       /\ truthy_only => fc[key] # 0
       /\ FileTotalWins(Get(rec, key, 0), fc[key])
    THEN Put(rec, key, fc[key])
    ELSE rec

\* The keys of a file in the order of the file.
FileKeyOrder ==
    <<KeyPageReviews, KeySiteAnalysis, KeyTotalReviewed, KeyTotalDiscovered,
      KeySummary, KeyReviewApproach>>

\* "for key, value in file_content.items()": the other keys of the file are
\* copied under their namespaced names.
RECURSIVE NamespaceExtras(_, _, _)
NamespaceExtras(rec, fc, keys) ==
    IF keys = <<>> THEN rec
    ELSE NamespaceExtras(
            IF /\ Has(fc, Head(keys))
               /\ ~Has(rec, Head(keys))
               /\ Head(keys) \notin {KeyPageReviews, KeySiteAnalysis}
            THEN Put(rec, Namespaced(Head(keys)), fc[Head(keys)])
            ELSE rec,
            fc, Tail(keys))

\* The except branches: the record itself gets the marker and is returned.
FileErrorForgetsReviews(res, message) ==
    Put(Put(res, KeyPageReviews, PageList(<<>>)), KeyAiFileError, message)

FileError(res, message) == Put(res, KeyAiFileError, message)

\* merge_results_with_file(results): what it returns (out) and the results
\* record after the call (res).
MergeResultsWithFile(res, f) ==
    IF f.state = "missing"
    THEN LET same == Put(res, KeyHasAiGeneratedFile, FALSE)
         IN  [out |-> same, res |-> same]
    ELSE IF f.state = "unreadable"
    THEN LET same == FileError(res, "File reading error")
         IN  [out |-> same, res |-> same]
    ELSE IF f.state = "unparseable"
    THEN LET same == FileError(res, "JSON parsing error")
         IN  [out |-> same, res |-> same]
    ELSE LET copy == Put(res, KeyAiGeneratedFile, f.content)
         IN  IF f.form # "dict"
             THEN [out |-> Put(copy, KeyHasAiGeneratedFile, TRUE), res |-> res]
             ELSE LET pages == MergePageReviews(copy, res, f.content, FALSE)
                  IN  IF pages.raised
                      THEN LET same == FileError(pages.res, "File reading error")
                           IN  [out |-> same, res |-> same]
                      ELSE LET site == MergeSiteAnalysis(pages.rec, f.content)
                               reviewed == MergeTotal(site, f.content,
                                                      KeyTotalReviewed, TRUE)
                               totals == MergeTotal(reviewed, f.content,
                                                    KeyTotalDiscovered, TRUE)
                               extras == NamespaceExtras(totals, f.content,
                                                         FileKeyOrder)
                           IN  [out |-> Put(extras, KeyHasAiGeneratedFile, TRUE),
                                res |-> pages.res]

\* merge_with_review_results(data, downloaded_files) of the viewer.  The
\* scores of the entries are not part of this model: summary_stats is
\* present with a value that stands for the statistics.
MergeWithReviewResults(res, f) ==
    IF f.state = "missing"
    THEN LET same == Put(res, KeyHasAiGeneratedFile, FALSE)
         IN  [out |-> same, res |-> same]
    ELSE IF f.state = "unreadable"
    THEN LET same == FileError(res, "File reading error")
         IN  [out |-> same, res |-> same]
    ELSE IF f.state = "unparseable"
    THEN LET same == FileError(res, "JSON parsing error")
         IN  [out |-> same, res |-> same]
    ELSE LET copy == Put(res, KeyAiGeneratedFile, f.content)
             pages == IF f.form = "dict"
                      THEN MergePageReviews(copy, res, f.content, TRUE)
                      ELSE [rec |-> copy, res |-> res, raised |-> FALSE]
         IN  IF pages.raised
             THEN LET same == FileError(pages.res, "File reading error")
                  IN  [out |-> same, res |-> same]
             ELSE LET site == IF f.form = "dict"
                              THEN MergeSiteAnalysis(pages.rec, f.content)
                              ELSE pages.rec
                      reviewed == IF f.form = "dict"
                                  THEN MergeTotal(site, f.content,
                                                  KeyTotalReviewed, FALSE)
                                  ELSE site
                      totals == IF f.form = "dict"
                                THEN MergeTotal(reviewed, f.content,
                                                KeyTotalDiscovered, FALSE)
                                ELSE reviewed
                  IN  [out |-> Put(Put(totals, KeyHasAiGeneratedFile, TRUE),
                                   KeySummaryStats, "statistics"),
                       res |-> pages.res]

---------------------------------------------------------------------------
(* The merge: the records it is applied to, and the actions.               *)

\* The sequences over S of length up to n.
SeqsUpTo(S, n) == UNION {[1 .. k -> S] : k \in 0 .. n}

\* The subsets of the keys of a record that may be present, as records
\* that map every chosen key to value.
WithKeys(keys, value) == {[x \in chosen |-> value] : chosen \in SUBSET keys}

\* The union of two records without a common key.
Both(a, b) == [x \in DOMAIN a \cup DOMAIN b |-> IF x \in DOMAIN a THEN a[x] ELSE b[x]]

OwnEntries == {Entry(u, "own") : u \in 0 .. MergeUrls}
FileEntries == {Entry(u, "file") : u \in 0 .. MergeUrls} \cup {TextEntry}

\* The totals a record may carry: each of the two is absent or a count.
Totals ==
    {Both(a, b) :
        a \in {NoRecord} \cup {[x \in {KeyTotalReviewed} |-> n] : n \in 0 .. MaxTotal},
        b \in {NoRecord} \cup {[x \in {KeyTotalDiscovered} |-> n] : n \in 0 .. MaxTotal}}

\* A results record with the page reviews items, as a review returns it.
OwnRecord(items) ==
    Both([x \in {KeyPageReviews} |-> PageList(items)],
         Both([x \in {KeyTotalReviewed} |-> Len(items)],
              [x \in {KeyReviewApproach} |-> "own"]))

\* A file that was read and parsed, and the files that were not.
ParsedFile(form, content) == [state |-> "parsed", form |-> form, content |-> content]
BrokenFiles ==
    {[state |-> st, form |-> "none", content |-> NoRecord] :
        st \in {"missing", "unreadable", "unparseable"}}

\* The first family of inputs: every list of page reviews on both sides.
ListInputs ==
    [own : {OwnRecord(items) : items \in SeqsUpTo(OwnEntries, MaxOwnReviews)}
              \cup {[x \in {KeyReviewApproach} |-> "own"]},
     file : {ParsedFile("dict", [x \in {KeyPageReviews} |-> PageList(items)]) :
                items \in SeqsUpTo(FileEntries, MaxFileReviews)}
               \cup {ParsedFile("dict", [x \in {KeyPageReviews} |-> NotAList])}]

\* The second family: every combination of totals and of the other keys on
\* both sides, and the files that cannot be read or parsed; the lists of
\* page reviews are those of one page, reviewed on both sides.
ScalarInputs ==
    [own : {Both([x \in {KeyPageReviews} |-> PageList(<<Entry(1, "own")>>)],
                 Both(t, e)) :
               t \in Totals,
               e \in WithKeys({KeyReviewApproach, KeyOverallReview,
                               Namespaced(KeySummary)}, "own")},
     file : {ParsedFile("dict", Both(pr, Both(t, e))) :
                pr \in {NoRecord,
                        [x \in {KeyPageReviews} |-> PageList(<<Entry(1, "file")>>)]},
                t \in Totals,
                e \in WithKeys({KeySiteAnalysis, KeySummary, KeyReviewApproach},
                               "file")}
               \cup {ParsedFile("list", NoRecord)}
               \cup BrokenFiles]

MergeInputs == ListInputs \cup ScalarInputs

\* merge_results_with_file(results), as run_review calls it on the results
\* of a review.
Merge ==
    /\ mpc = "start"
    /\ LET r == MergeResultsWithFile(results, review_file)
       IN  /\ results' = r.res
           /\ merged' = r.out
           /\ first_merged' = r.out
    /\ last_call' = "merge"
    /\ mpc' = "merged"
    /\ UNCHANGED <<original, review_file>>

\* merge_results_with_file(results) is called again with the same results
\* record and the same file.
MergeAgain ==
    /\ mpc = "merged"
    /\ LET r == MergeResultsWithFile(results, review_file)
       IN  /\ results' = r.res
           /\ merged' = r.out
    /\ last_call' = "again"
    /\ mpc' = "end"
    /\ UNCHANGED <<original, review_file, first_merged>>

\* merge_results_with_file is called on the record that the first merge
\* returned, read back from the report it was saved to.
Remerge ==
    /\ mpc = "merged"
    /\ LET r == MergeResultsWithFile(merged, review_file)
       IN  /\ results' = r.res
           /\ merged' = r.out
    /\ last_call' = "remerge"
    /\ mpc' = "end"
    /\ UNCHANGED <<original, review_file, first_merged>>

\* The viewer loads the saved report and calls merge_with_review_results.
ViewerMerge ==
    /\ mpc = "merged"
    /\ LET r == MergeWithReviewResults(merged, review_file)
       IN  /\ results' = r.res
           /\ merged' = r.out
    /\ last_call' = "viewer"
    /\ mpc' = "end"
    /\ UNCHANGED <<original, review_file, first_merged>>

MergeInit ==
    /\ DiscoveryIdle
    /\ PollerIdle
    /\ ExtractIdle
    /\ RunIdle
    /\ FilterIdle
    /\ MultiStepIdle
    /\ SinglePassIdle
    /\ mpc = "start"
    /\ \E input \in MergeInputs :
          /\ original = input.own
          /\ results = input.own
          /\ review_file = input.file
    /\ merged = NoRecord
    /\ first_merged = NoRecord
    /\ last_call = "none"

MergeNext ==
    \/ Merge /\ UNCHANGED <<dvars, pvars, xvars, rvars, fvars, nvars, ovars>>
    \/ MergeAgain /\ UNCHANGED <<dvars, pvars, xvars, rvars, fvars, nvars, ovars>>
    \/ Remerge /\ UNCHANGED <<dvars, pvars, xvars, rvars, fvars, nvars, ovars>>
    \/ ViewerMerge /\ UNCHANGED <<dvars, pvars, xvars, rvars, fvars, nvars, ovars>>

MergeSpec == MergeInit /\ [][MergeNext]_vars

---------------------------------------------------------------------------
(* Properties of the merge.                                                *)

\* The first merge has returned.
FirstMergeDone == mpc \in {"merged", "end"}

\* The file was parsed to a mapping, and the merge went through.
FileIsMapping == review_file.state = "parsed" /\ review_file.form = "dict"
MergeWentThrough ==
    /\ FileIsMapping
    /\ Has(first_merged, KeyHasAiGeneratedFile)
    /\ first_merged[KeyHasAiGeneratedFile]

\* The file has a list of page reviews; the lists of the three records.
FileHasList ==
    /\ FileIsMapping
    /\ Has(review_file.content, KeyPageReviews)
    /\ review_file.content[KeyPageReviews].is_list
FileItems == Get(review_file.content, KeyPageReviews, PageList(<<>>)).items
OwnItems == Get(original, KeyPageReviews, PageList(<<>>)).items
MergedItems == Get(first_merged, KeyPageReviews, PageList(<<>>)).items

AllMappings(items) == \A n \in 1 .. Len(items) : items[n].form = "mapping"
NoUrlTwice(items) ==
    \A i, j \in 1 .. Len(items) : i # j => items[i].url # items[j].url

\* C21: when the list of the file is strictly longer than that of the
\* results, the merged list is exactly the list of the file.
C21_LongerFileListReplaces ==
    FirstMergeDone /\ FileHasList /\ Len(FileItems) > Len(OwnItems) =>
        /\ Has(first_merged, KeyPageReviews)
        /\ first_merged[KeyPageReviews] = PageList(FileItems)

\* Two pages in the results, three in the file, one page of the results not
\* in the file.
C21_Witness ==
    /\ FirstMergeDone
    /\ FileHasList
    /\ Len(OwnItems) = 2
    /\ Len(FileItems) = 3
    /\ AllMappings(FileItems)
    /\ \E n \in 1 .. 2 : \A k \in 1 .. 3 : OwnItems[n].url # FileItems[k].url
    /\ MergedItems = FileItems

\* C22: when the list of the file is not strictly longer, the merged list
\* is the list of the results, in its order, followed by exactly the
\* entries of the file whose URL is not in the list of the results; if no
\* URL occurs twice in either list, none occurs twice in the merged list.
C22_UnionByUrl ==
    FirstMergeDone /\ FileHasList /\ AllMappings(FileItems)
        /\ ~(Len(FileItems) > Len(OwnItems)) =>
        /\ MergedItems =
              OwnItems \o SelectSeq(FileItems,
                                    LAMBDA e : e.url \notin UrlsOf(OwnItems))
        /\ NoUrlTwice(OwnItems) /\ NoUrlTwice(FileItems) =>
              NoUrlTwice(MergedItems)

\* Two pages on each side, one of them common: three entries.
C22_Witness ==
    /\ FirstMergeDone
    /\ FileHasList
    /\ AllMappings(FileItems)
    /\ Len(OwnItems) = 2 /\ NoUrlTwice(OwnItems)
    /\ Len(FileItems) = 2 /\ NoUrlTwice(FileItems)
    /\ Cardinality(UrlsOf(OwnItems) \cap UrlsOf(FileItems)) = 1
    /\ Len(MergedItems) = 3
    /\ MergedItems[3].origin = "file"

\* The URLs of the entries that are mappings.
PageUrls(items) ==
    {items[n].url : n \in {k \in 1 .. Len(items) : items[k].form = "mapping"}}

\* C23: whatever the file that was parsed, every URL of the list of the
\* results is a URL of the merged list.
C23_NoOwnPageDropped ==
    FirstMergeDone /\ review_file.state = "parsed" =>
        PageUrls(OwnItems) \subseteq PageUrls(MergedItems)

\* max(own value or 0, value of the file if it has one)
LargerTotal(key) ==
    LET own_total == Get(original, key, 0)
    IN  IF Has(review_file.content, key) /\ review_file.content[key] > own_total
        THEN review_file.content[key]
        ELSE own_total

\* C24: after a merge each of the two totals is the larger of the value of
\* the results (0 if absent) and the value of the file (if it has one); no
\* merge makes a total smaller.
C24_TotalsAreTheLarger ==
    FirstMergeDone =>
        \A key \in {KeyTotalReviewed, KeyTotalDiscovered} :
            /\ MergeWentThrough =>
                  Get(first_merged, key, 0) = LargerTotal(key)
            /\ Get(first_merged, key, 0) >= Get(original, key, 0)
            /\ Has(original, key) => Has(first_merged, key)

\* One total is larger in the file, the other in the results, and the file
\* has a total that the results do not have.
C24_Witness ==
    /\ FirstMergeDone
    /\ MergeWentThrough
    /\ \E a, b \in {KeyTotalReviewed, KeyTotalDiscovered} :
          /\ a # b
          /\ Has(original, a) /\ Has(review_file.content, a)
          /\ original[a] = 1 /\ review_file.content[a] = 2
          /\ first_merged[a] = 2
          /\ ~Has(original, b) /\ Has(review_file.content, b)
          /\ review_file.content[b] = 1
          /\ first_merged[b] = 1

\* C25: every key of the file other than page_reviews and site_analysis
\* that is not a key of the merged record is kept under its namespaced
\* name with its value, and no key of the results is overwritten by it.
C25_ExtrasNamespaced ==
    FirstMergeDone /\ MergeWentThrough =>
        \A key \in DOMAIN review_file.content \ {KeyPageReviews, KeySiteAnalysis} :
            ~Has(first_merged, key) =>
                /\ Has(first_merged, Namespaced(key))
                /\ first_merged[Namespaced(key)] = review_file.content[key]
                /\ Has(original, Namespaced(key)) =>
                      first_merged[Namespaced(key)] = original[Namespaced(key)]

\* C26: when the file is there but cannot be read or parsed, the merge
\* returns the results record with the marker ai_file_error added and
\* nothing else changed.
C26_BrokenFileOnlyMarks ==
    FirstMergeDone /\ review_file.state \in {"unreadable", "unparseable"} =>
        /\ DOMAIN first_merged = DOMAIN original \cup {KeyAiFileError}
        /\ \A key \in DOMAIN original \ {KeyAiFileError} :
              first_merged[key] = original[key]
        /\ first_merged[KeyAiFileError] =
              IF review_file.state = "unparseable"
              THEN "JSON parsing error" ELSE "File reading error"
        /\ results = first_merged

\* A results record with page reviews, both totals and an analysis, merged
\* with a file that does not parse.
C26_Witness ==
    /\ FirstMergeDone
    /\ review_file.state = "unparseable"
    /\ OwnItems # <<>>
    /\ Has(original, KeyTotalReviewed) /\ original[KeyTotalReviewed] > 0
    /\ Has(original, KeyTotalDiscovered)
    /\ Has(original, KeyOverallReview)
    /\ Has(first_merged, KeyAiFileError)

\* The page reviews and the totals of a record.
ReviewsAndTotals(rec) ==
    [key \in DOMAIN rec \cap {KeyPageReviews, KeyTotalReviewed, KeyTotalDiscovered}
        |-> rec[key]]

\* C27: a second merge of the same results with the same file returns what
\* the first returned; merging the merged record with the same file again,
\* by merge_results_with_file or by the viewer, changes neither the page
\* reviews nor the totals.
C27_MergeIdempotent ==
    /\ last_call = "again" => merged = first_merged
    /\ last_call \in {"remerge", "viewer"} =>
          ReviewsAndTotals(merged) = ReviewsAndTotals(first_merged)

\* The first merge appended an entry of the file to the two entries of the
\* results, and a second merge was made.
C27_Witness ==
    /\ last_call \in {"again", "remerge", "viewer"}
    /\ FileHasList
    /\ Len(OwnItems) = 2
    /\ Len(FileItems) = 2
    /\ Len(MergedItems) > 2
    /\ \E key \in {KeyTotalReviewed} :
          Has(original, key) /\ Has(merged, key)

\* In the record, total_pages_reviewed is the number of entries of
\* page_reviews and, where total_pages_discovered is present, does not
\* exceed it.
TotalMatchesReviews(rec) ==
    /\ Has(rec, KeyPageReviews)
    /\ rec[KeyPageReviews].is_list
    /\ Has(rec, KeyTotalReviewed)
    /\ rec[KeyTotalReviewed] = Len(rec[KeyPageReviews].items)
    /\ Has(rec, KeyTotalDiscovered)
          => rec[KeyTotalReviewed] <= rec[KeyTotalDiscovered]

\* C35: the record of a staged run, in which total_pages_reviewed is the
\* number of page reviews, still has that property after the merge with
\* the file.
C35_TotalMatchesPageReviews ==
    mpc = "merged" /\ TotalMatchesReviews(original)
        => TotalMatchesReviews(first_merged)

\* C38: merge_results_with_file with a file that parses into a mapping
\* leaves the list of page reviews of its argument as it was.
C38_PrimaryUnmodified ==
    mpc = "merged" /\ FileIsMapping =>
        Get(results, KeyPageReviews, PageList(<<>>))
            = Get(original, KeyPageReviews, PageList(<<>>))

---------------------------------------------------------------------------
(* _is_documentation_url, applied to the text of one URL.                  *)

\* The tokens that begin the query and the fragment of a URL.
QueryTokens == {"?v=2"}
FragmentTokens == {"#"}

\* The URLs the filter is applied to: a page of the seed's host, a file
\* name with or without an extension in either case, then a query, a
\* fragment, both or neither.
CandidateTexts ==
    {<<"https://", SeedHost>> \o path \o ext \o query \o fragment :
        path \in {<<"/p">>, <<"/docs/", "guide">>, <<"/Static/", "app">>},
        ext \in {<<>>, <<".html">>}
                  \cup {<<e>> : e \in skip_extensions \cup {".PDF", ".Zip"}},
        query \in {<<>>, <<"?v=2">>},
        fragment \in {<<>>, <<"#", "top">>}}

\* One call of _is_documentation_url.
Filter ==
    /\ fpc = "start"
    /\ admitted' = IsDocumentationText(candidate)
    /\ fpc' = "returned"
    /\ UNCHANGED candidate

FilterInit ==
    /\ DiscoveryIdle
    /\ PollerIdle
    /\ ExtractIdle
    /\ RunIdle
    /\ MergeIdle
    /\ MultiStepIdle
    /\ SinglePassIdle
    /\ fpc = "start"
    /\ candidate \in CandidateTexts
    /\ admitted = FALSE

FilterNext == Filter /\ UNCHANGED <<dvars, pvars, xvars, rvars, mvars, nvars, ovars>>

FilterSpec == FilterInit /\ [][FilterNext]_vars

---------------------------------------------------------------------------
(* Properties of the admission of URLs.                                    *)

\* The path of a URL: what comes before its query and its fragment.
PathOf(text) ==
    SubSeq(text, 1,
           Cardinality({k \in 1 .. Len(text) :
                           \A j \in 1 .. k :
                               text[j] \notin QueryTokens \cup FragmentTokens}))

\* The path ends with one of the extensions, in either case.
PathEndsWithSkipExtension(text) ==
    /\ PathOf(text) # <<>>
    /\ Lower(PathOf(text)[Len(PathOf(text))]) \in skip_extensions

\* C28: the filter rejects every URL whose path ends with one of the
\* extensions of skip_extensions, in either case, and also when a query
\* string follows the path.
C28_SkipExtensionRejected ==
    fpc = "returned" /\ PathEndsWithSkipExtension(candidate) => ~admitted

\* C30: every URL in discovered_urls has the host of the seed; a link whose
\* host only begins with the seed's host, or whose text only contains it,
\* is never added.
C30_SameHostAsSeed ==
    \A u \in discovered_urls : Netloc(u) = Netloc(SeedUrl)

---------------------------------------------------------------------------
(* _multi_step_review: the links of the start page are listed by one call  *)
(* of _extract_documentation_links, then every page is reviewed and the    *)
(* analysis is made as in the exhaustive run.                              *)

\* all_links = list(set([start_url] + links))[:max_pages], and the review
\* loop begins.  The site has the pages of RunSite and one download.
BeginReview(links) ==
    /\ Range(links) \subseteq RunSite \cup {PdfUrl}
    /\ all_urls' \in {Take(q, max_pages) :
                        q \in Orderings({SeedUrl} \cup Range(links))}
    /\ ri' = 1
    /\ page_reviews' = <<>>
    /\ rpc' = "review"

\* base_domain = urlparse(start_url).netloc, the first statement of
\* _extract_documentation_links, raises ValueError on a start URL that
\* urlparse rejects (as "http://[docs"); _multi_step_review catches it and
\* returns its error record, without any job.
ListLinksRaises ==
    /\ rpc = "extract"
    /\ call = "none"
    /\ ~start_parses
    /\ rpc' = "error_record"
    /\ UNCHANGED <<dvars, nvars, call, in_flight, discovery_order, all_urls,
                   ri, page_reviews, stats, overall_review, last_outcome>>

\* _extract_documentation_links(start_url) submits its job.
ListSubmitLinksJob ==
    /\ rpc = "extract"
    /\ call = "none"
    /\ start_parses
    /\ call' = "links"
    /\ in_flight' = JobSubmitted(in_flight)
    /\ UNCHANGED <<dvars, nvars, rpc, discovery_order, all_urls, ri,
                   page_reviews, stats, overall_review, last_outcome>>

\* The job returns and its links are filtered, or it raises.
ListLinksJobEnds ==
    /\ rpc = "extract"
    /\ call = "links"
    /\ in_flight' = JobEnded(in_flight)
    /\ \/ /\ \E job \in JobOutcomes(SeedUrl) :
                /\ job.primary = "ok"
                /\ BeginReview(ExtractDocumentationLinks(SeedUrl, job))
          /\ call' = "none"
       \/ /\ call' = "links_raised"
          /\ UNCHANGED <<rpc, all_urls, ri, page_reviews>>
    /\ UNCHANGED <<dvars, nvars, discovery_order, stats, overall_review,
                   last_outcome>>

\* _simple_link_extraction submits its job.
ListSubmitSimpleJob ==
    /\ rpc = "extract"
    /\ call = "links_raised"
    /\ call' = "simple"
    /\ in_flight' = JobSubmitted(in_flight)
    /\ UNCHANGED <<dvars, nvars, rpc, discovery_order, all_urls, ri,
                   page_reviews, stats, overall_review, last_outcome>>

\* The job of _simple_link_extraction returns or raises.
ListSimpleJobEnds ==
    /\ rpc = "extract"
    /\ call = "simple"
    /\ in_flight' = JobEnded(in_flight)
    /\ \E job \in JobOutcomes(SeedUrl) :
          /\ job.primary = "raised"
          /\ BeginReview(ExtractDocumentationLinks(SeedUrl, job))
    /\ call' = "none"
    /\ UNCHANGED <<dvars, nvars, discovery_order, stats, overall_review,
                   last_outcome>>

MultiStepInit ==
    /\ DiscoveryIdle
    /\ PollerIdle
    /\ ExtractIdle
    /\ MergeIdle
    /\ FilterIdle
    /\ SinglePassIdle
    /\ max_pages \in 1 .. RunPages
    /\ start_parses \in BOOLEAN
    /\ rpc = "extract"
    /\ call = "none"
    /\ in_flight = 0
    /\ discovery_order = <<>>
    /\ all_urls = <<>>
    /\ ri = 0
    /\ page_reviews = <<>>
    /\ stats = NoStats
    /\ overall_review = NoAnalysis
    /\ last_outcome = NoOutcome

MultiStepNext ==
    \/ ListLinksRaises /\ UNCHANGED <<pvars, xvars, mvars, fvars, ovars>>
    \/ ListSubmitLinksJob /\ UNCHANGED <<pvars, xvars, mvars, fvars, ovars>>
    \/ ListLinksJobEnds /\ UNCHANGED <<pvars, xvars, mvars, fvars, ovars>>
    \/ ListSubmitSimpleJob /\ UNCHANGED <<pvars, xvars, mvars, fvars, ovars>>
    \/ ListSimpleJobEnds /\ UNCHANGED <<pvars, xvars, mvars, fvars, ovars>>
    \/ SubmitPageJob /\ UNCHANGED <<pvars, xvars, mvars, fvars, nvars, ovars>>
    \/ PageJobEnds /\ UNCHANGED <<pvars, xvars, mvars, fvars, nvars, ovars>>
    \/ Aggregate /\ UNCHANGED <<pvars, xvars, mvars, fvars, nvars, ovars>>
    \/ SummaryJobEnds /\ UNCHANGED <<pvars, xvars, mvars, fvars, nvars, ovars>>

MultiStepSpec == MultiStepInit /\ [][MultiStepNext]_vars

\* C29: a page-review job is only submitted for a URL that passes
\* _is_documentation_url, in the exhaustive run and in _multi_step_review.
C29_ReviewedPagesPassFilter ==
    call = "page" => IsDocumentationUrl(all_urls[ri])

\* The review loop of _multi_step_review has gone through all_links.
PagesReviewed == rpc \in {"analysis", "done"} /\ ri > Len(all_urls)

\* C36: with max_pages >= 1 the start URL is among the pages reviewed,
\* whatever the link listing returned, and at most max_pages pages are
\* reviewed.
C36_StartUrlReviewed ==
    PagesReviewed /\ max_pages >= 1 =>
        /\ SeedUrl \in Range(all_urls)
        /\ Len(all_urls) <= max_pages

\* For the link listing _multi_step_review submits one job, then at most
\* the one job of _simple_link_extraction, and with the answer of either
\* it enters the review loop; with a start URL that urlparse accepts it
\* never returns its error record.
LinkListingContained ==
    /\ [][rpc = "extract" /\ call' # call
            => /\ <<call, call'>> \in {<<"none", "links">>,
                                       <<"links", "none">>,
                                       <<"links", "links_raised">>,
                                       <<"links_raised", "simple">>,
                                       <<"simple", "none">>}
               /\ call' = "none" => rpc' = "review"]_vars
    /\ [](start_parses => rpc # "error_record")
    /\ [](rpc \in {"review", "analysis", "done"} => all_urls # <<>>)

\* C37: the link listing never fails the run: at most two jobs are
\* submitted for it, the error record of _multi_step_review is never
\* returned, and the review that follows covers at least the start URL.
C37_LinkListingNeverFails ==
    /\ LinkListingContained
    /\ [](rpc # "error_record")
    /\ [](rpc \in {"review", "analysis", "done"}
            => SeedUrl \in Range(all_urls))

---------------------------------------------------------------------------
(* _one_shot_review and _one_shot_true_exhaustive_review: one job reviews  *)
(* the whole site, and its result, tagged, is the record of the run.       *)

KeyError == <<"error">>
KeyApiMethod == <<"api_method">>
KeyTimestamp == <<"timestamp">>

SinglePassStrategies == {"one_shot", "true_exhaustive"}

\* result["review_approach"] of each strategy
ApproachTag(st) == IF st = "one_shot" THEN "one-shot" ELSE "exhaustive_one_shot"

\* How the call of _run_browser_task ends for the strategy: it raises
\* (submission rejected, failed status, timeout, TypeError on the downloaded
\* files), or returns a value: None, [], "", 0, a non-empty list, text or
\* number, or a mapping: {} or one with some of total_pages_reviewed,
\* total_pages_discovered, page_reviews and error.
RaiseKinds == {"create_failed", "task_failed", "timeout", "type_error"}
FalsyForms == {"none", "empty_list", "empty_text", "zero"}
TruthyForms == {"list", "text", "number"}
JobMappings ==
    {Both(t, Both(pr, e)) :
        t \in Totals,
        pr \in {NoRecord,
                [x \in {KeyPageReviews} |-> PageList(<<Entry(1, "own")>>)]},
        e \in {NoRecord, [x \in {KeyError} |-> "job"]}}
SinglePassJobs ==
    {[raised |-> TRUE, kind |-> k, form |-> "none", value |-> NoRecord] :
        k \in RaiseKinds}
    \cup {[raised |-> FALSE, kind |-> "none", form |-> f, value |-> NoRecord] :
            f \in FalsyForms \cup TruthyForms}
    \cup {[raised |-> FALSE, kind |-> "none", form |-> "mapping", value |-> m] :
            m \in JobMappings}

\* bool(result)
IsTruthy(o) ==
    IF o.form = "mapping" THEN DOMAIN o.value # {} ELSE o.form \in TruthyForms

\* The record of the else branch and of the except branch.
ErrorRecord(st, msg) ==
    LET common == Put(Put(Put(Put(Put(NoRecord, KeyError, msg),
                                  KeyReviewApproach, ApproachTag(st)),
                              KeyTotalReviewed, 0),
                          KeyPageReviews, PageList(<<>>)),
                      KeyTimestamp, "now")
    IN  IF st = "one_shot"
        THEN Put(common, KeyOverallReview, "empty")
        ELSE Put(Put(common, KeyTotalDiscovered, 0), KeySiteAnalysis, "empty")

\* The branch "if result": the tags are set in the result, and the
\* exhaustive strategy fills in a missing total from the other.
Tagged(st, value) ==
    LET tagged == Put(Put(value, KeyReviewApproach, ApproachTag(st)),
                      KeyApiMethod, "cloud")
        reviewed == IF Has(tagged, KeyTotalReviewed) THEN tagged
                    ELSE Put(tagged, KeyTotalReviewed,
                             Get(tagged, KeyTotalDiscovered, 1))
        discovered == IF Has(reviewed, KeyTotalDiscovered) THEN reviewed
                      ELSE Put(reviewed, KeyTotalDiscovered,
                               Get(reviewed, KeyTotalReviewed, 1))
    IN  IF st = "one_shot" THEN tagged ELSE discovered

\* The try block around the job: what the strategy returns.  Setting a key
\* in a result that is not a dict raises TypeError inside the try.
SinglePassReturn(st, o) ==
    IF o.raised
    THEN [pc |-> "returned", record |-> ErrorRecord(st, o.kind)]
    ELSE IF ~IsTruthy(o)
    THEN [pc |-> "returned", record |-> ErrorRecord(st, "no result returned")]
    ELSE IF o.form # "mapping"
    THEN [pc |-> "returned", record |-> ErrorRecord(st, "type_error")]
    ELSE [pc |-> "returned", record |-> Tagged(st, o.value)]

\* The task description of _one_shot_true_exhaustive_review holds
\* urlparse(start_url).netloc and is built before the try: urlparse raises
\* ValueError on a start URL it rejects, and the strategy raises.
SinglePassRaises ==
    /\ opc = "start"
    /\ strategy = "true_exhaustive"
    /\ ~start_parses
    /\ opc' = "raised"
    /\ UNCHANGED <<strategy, single_job, single_record, nvars>>

\* The strategy submits its job and awaits it.
SinglePassSubmit ==
    /\ opc = "start"
    /\ strategy = "one_shot" \/ start_parses
    /\ opc' = "awaiting"
    /\ UNCHANGED <<strategy, single_job, single_record, nvars>>

\* The job ends and the strategy returns.
SinglePassJobEnds ==
    /\ opc = "awaiting"
    /\ \E o \in SinglePassJobs :
          /\ single_job' = o
          /\ opc' = SinglePassReturn(strategy, o).pc
          /\ single_record' = SinglePassReturn(strategy, o).record
    /\ UNCHANGED <<strategy, nvars>>

SinglePassInit ==
    /\ DiscoveryIdle
    /\ PollerIdle
    /\ ExtractIdle
    /\ RunIdle
    /\ MergeIdle
    /\ FilterIdle
    /\ max_pages = 0
    /\ start_parses \in BOOLEAN
    /\ opc = "start"
    /\ strategy \in SinglePassStrategies
    /\ single_job = NoJob
    /\ single_record = NoRecord

SinglePassNext ==
    \/ SinglePassRaises /\ UNCHANGED <<dvars, pvars, xvars, rvars, mvars, fvars>>
    \/ SinglePassSubmit /\ UNCHANGED <<dvars, pvars, xvars, rvars, mvars, fvars>>
    \/ SinglePassJobEnds /\ UNCHANGED <<dvars, pvars, xvars, rvars, mvars, fvars>>

SinglePassSpec == SinglePassInit /\ [][SinglePassNext]_vars

\* The job failed: the submission was rejected, the job reported failed or
\* timed out (the poller raised), or it returned an empty result.
JobFailed(o) == o.raised \/ ~IsTruthy(o)

\* A record with an error field, the approach tag of the strategy,
\* total_pages_reviewed = 0 and an empty list of page reviews.
IsErrorRecord(rec, st) ==
    /\ Has(rec, KeyError)
    /\ Get(rec, KeyReviewApproach, "none") = ApproachTag(st)
    /\ Get(rec, KeyTotalReviewed, -1) = 0
    /\ Get(rec, KeyPageReviews, NotAList) = PageList(<<>>)

\* Whenever the job of a single-pass strategy fails, the strategy returns
\* an error record.
JobFailureGivesErrorRecord ==
    opc \in {"returned", "raised"} /\ single_job # NoJob /\ JobFailed(single_job)
        => opc = "returned" /\ IsErrorRecord(single_record, strategy)

\* C39: the single-pass strategies never raise, and on any failure of
\* their job they return a record with an error field, the approach tag,
\* total_pages_reviewed = 0 and an empty list of page reviews.
C39_SinglePassNeverRaises ==
    /\ opc # "raised"
    /\ JobFailureGivesErrorRecord

---------------------------------------------------------------------------
(* Termination of a run of review_documentation_site.                      *)

\* The event loop runs the coroutine of the exhaustive multi-step run to
\* its end: every step that can be taken is eventually taken, every
\* request to the remote service returning or failing.
RunFairSpec == RunSpec /\ WF_vars(RunNext)

\* Every run ends: it returns its record or raises.
RunTerminates == <>(rpc \in {"done", "raised"})

\* C40: every run of review_documentation_site eventually terminates with
\* a record, whatever the remote service does.
C40_RunEndsWithRecord == <>(rpc = "done")

===========================================================================
